---- MODULE Spec2Model ----
(***************************************************************************)
(* A model of the provider-compat adapter (src/src/agents/                 *)
(* provider-compat.ts): the message-shape converter, the response recovery *)
(* layer and the non-streaming transport.                                  *)
(*                                                                         *)
(* Text is a sequence of tokens.  A token is a record [c, e]: c is the     *)
(* character class (a marker such as "</think>", a whitespace " ", a word, *)
(* a JSON punctuation sign, a digit, a double quote) and e is the number   *)
(* of JSON string-escape levels that wrap it (e = 0 is a bare quote, e = 1 *)
(* is \" , e = 2 is \\\" ...).  Only quotes change under escaping.         *)
(***************************************************************************)
EXTENDS Integers, Sequences, FiniteSets, TLC

\* ---------------------------------------------------------------- text

Tk(s) == [c |-> s, e |-> 0]

Quote(n) == [c |-> "\"", e |-> n]

\* A text from a sequence of plain token names
Txt(names) == [i \in 1..Len(names) |-> Tk(names[i])]

IsWs(tok) == tok.c = " "

\* String.prototype.trim
RECURSIVE TrimLeft(_)
TrimLeft(ts) ==
  IF ts # <<>> /\ IsWs(Head(ts)) THEN TrimLeft(Tail(ts)) ELSE ts

RECURSIVE TrimRight(_)
TrimRight(ts) ==
  IF ts # <<>> /\ IsWs(ts[Len(ts)]) THEN TrimRight(SubSeq(ts, 1, Len(ts) - 1)) ELSE ts

Trim(ts) == TrimRight(TrimLeft(ts))

\* String.prototype.indexOf(marker, from) for a one-token marker; 0 when absent
RECURSIVE IndexOfFrom(_, _, _)
IndexOfFrom(ts, marker, from) ==
  IF from > Len(ts) THEN 0
  ELSE IF ts[from] = Tk(marker) THEN from
  ELSE IndexOfFrom(ts, marker, from + 1)

LastIndexOfFirst(ts, marker) == IndexOfFrom(ts, marker, 1)

\* String.prototype.lastIndexOf(marker); 0 when absent
RECURSIVE LastIndexOf(_, _)
LastIndexOf(ts, marker) ==
  IF ts = <<>> THEN 0
  ELSE IF ts[Len(ts)] = Tk(marker) THEN Len(ts)
  ELSE LastIndexOf(SubSeq(ts, 1, Len(ts) - 1), marker)

\* ---------------------------------------------------------------- JSON values

JNull == [t |-> "null", v |-> <<>>]

JNum(d) == [t |-> "num", v |-> <<d>>]

JStr(text) == [t |-> "str", v |-> text]

\* An object: its members [k, v] in insertion order; k is the key's text
JObj(members) == [t |-> "obj", v |-> members]

Member(key, val) == [k |-> <<Tk(key)>>, v |-> val]

EmptyObj == JObj(<<>>)

Digits == {"0", "1", "2"}

\* obj[key] of JavaScript for an object value: the last member of that key
RECURSIVE GetMember(_, _, _)
GetMember(members, key, i) ==
  IF i = 0 THEN [found |-> FALSE, val |-> JNull]
  ELSE IF members[i].k = <<Tk(key)>> THEN [found |-> TRUE, val |-> members[i].v]
  ELSE GetMember(members, key, i - 1)

Get(val, key) ==
  IF val.t = "obj" THEN GetMember(val.v, key, Len(val.v))
  ELSE [found |-> FALSE, val |-> JNull]

\* ---------------------------------------------------------------- JSON.stringify

\* One more level of string escaping: a quote gains a backslash level
EscapeTok(tok) == IF tok.c = "\"" THEN [tok EXCEPT !.e = @ + 1] ELSE tok

QuoteText(text) ==
  <<Quote(0)>> \o [i \in 1..Len(text) |-> EscapeTok(text[i])] \o <<Quote(0)>>

RECURSIVE JSONstringify(_)
RECURSIVE StringifyMembers(_, _)
StringifyMembers(members, i) ==
  IF i > Len(members) THEN <<>>
  ELSE (IF i > 1 THEN <<Tk(",")>> ELSE <<>>)
       \o QuoteText(members[i].k) \o <<Tk(":")>> \o JSONstringify(members[i].v)
       \o StringifyMembers(members, i + 1)

JSONstringify(val) ==
  CASE val.t = "null" -> <<Tk("null")>>
    [] val.t = "num" -> <<Tk(val.v[1])>>
    [] val.t = "str" -> QuoteText(val.v)
    [] val.t = "obj" -> <<Tk("{")>> \o StringifyMembers(val.v, 1) \o <<Tk("}")>>

\* ---------------------------------------------------------------- JSON.parse

RECURSIVE SkipWs(_, _)
SkipWs(ts, i) ==
  IF i <= Len(ts) /\ IsWs(ts[i]) THEN SkipWs(ts, i + 1) ELSE i

\* The closing bare quote of the string that opens before position i; 0 when none
RECURSIVE ClosingQuote(_, _)
ClosingQuote(ts, i) ==
  IF i > Len(ts) THEN 0
  ELSE IF ts[i] = Quote(0) THEN i
  ELSE ClosingQuote(ts, i + 1)

UnescapeTok(tok) == IF tok.c = "\"" THEN [tok EXCEPT !.e = @ - 1] ELSE tok

ParseFail == [ok |-> FALSE, val |-> JNull, next |-> 0]

\* A string literal at position i (a bare quote)
ParseString(ts, i) ==
  LET j == ClosingQuote(ts, i + 1)
  IN  IF j = 0 THEN ParseFail
      ELSE [ok |-> TRUE,
            val |-> JStr([n \in 1..(j - i - 1) |-> UnescapeTok(ts[i + n])]),
            next |-> j + 1]

RECURSIVE ParseValue(_, _)
RECURSIVE ParseMembers(_, _, _)
\* The members after "{" or ",": "key" : value, then "," or "}"
ParseMembers(ts, i0, acc) ==
  LET i == SkipWs(ts, i0)
  IN  IF i > Len(ts) \/ ts[i] # Quote(0) THEN ParseFail
      ELSE LET key == ParseString(ts, i)
               c == IF key.ok THEN SkipWs(ts, key.next) ELSE 0
           IN  IF ~key.ok \/ c > Len(ts) \/ ts[c] # Tk(":") THEN ParseFail
               ELSE LET val == ParseValue(ts, c + 1)
                        n == IF val.ok THEN SkipWs(ts, val.next) ELSE 0
                        more == Append(acc, [k |-> key.val.v, v |-> val.val])
                    IN  IF ~val.ok \/ n > Len(ts) THEN ParseFail
                        ELSE IF ts[n] = Tk(",") THEN ParseMembers(ts, n + 1, more)
                        ELSE IF ts[n] = Tk("}")
                             THEN [ok |-> TRUE, val |-> JObj(more), next |-> n + 1]
                        ELSE ParseFail

ParseValue(ts, i0) ==
  LET i == SkipWs(ts, i0)
  IN  IF i > Len(ts) THEN ParseFail
      ELSE IF ts[i] = Tk("null") THEN [ok |-> TRUE, val |-> JNull, next |-> i + 1]
      ELSE IF ts[i].e = 0 /\ ts[i].c \in Digits
           THEN [ok |-> TRUE, val |-> JNum(ts[i].c), next |-> i + 1]
      ELSE IF ts[i] = Quote(0) THEN ParseString(ts, i)
      ELSE IF ts[i] = Tk("{")
           THEN LET n == SkipWs(ts, i + 1)
                IN  IF n <= Len(ts) /\ ts[n] = Tk("}")
                    THEN [ok |-> TRUE, val |-> EmptyObj, next |-> n + 1]
                    ELSE ParseMembers(ts, i + 1, <<>>)
      ELSE ParseFail

\* JSON.parse(text): [ok, val]; ok = FALSE is the SyntaxError it throws
JSONparse(ts) ==
  LET r == ParseValue(ts, 1)
  IN  IF r.ok /\ SkipWs(ts, r.next) > Len(ts)
      THEN [ok |-> TRUE, val |-> r.val]
      ELSE [ok |-> FALSE, val |-> JNull]

\* Truthiness of a JSON value in JavaScript
Truthy(val) ==
  CASE val.t = "null" -> FALSE
    [] val.t = "num" -> val.v[1] # "0"
    [] val.t = "str" -> val.v # <<>>
    [] val.t = "obj" -> TRUE

\* ---------------------------------------------------------------- ids

\* An id is a prefix and a number; randomUUID() is the next unused number u
Id(prefix, n) == [p |-> prefix, n |-> n]

\* The empty string as an id (falsy)
NoId == Id("", 0)

\* ---------------------------------------------------------------- internal messages

\* InputContentPart, and the TextContent | ToolCall parts of an AssistantMessage
TextPart(s) ==
  [type |-> "text", text |-> s, id |-> NoId, name |-> JNull,
   arguments |-> JNull, input |-> JNull]

ImagePart ==
  [type |-> "image", text |-> <<>>, id |-> NoId, name |-> JNull,
   arguments |-> JNull, input |-> JNull]

ToolCallPart(id, name, args) ==
  [type |-> "toolCall", text |-> <<>>, id |-> id, name |-> name,
   arguments |-> args, input |-> JNull]

ToolUsePart(id, name, input) ==
  [type |-> "tool_use", text |-> <<>>, id |-> id, name |-> name,
   arguments |-> JNull, input |-> input]

\* msg.content: a string, an array of parts, or anything else
StringContent(s) == [kind |-> "string", s |-> s, parts |-> <<>>]

ArrayContent(parts) == [kind |-> "array", s |-> <<>>, parts |-> parts]

OtherContent == [kind |-> "other", s |-> <<>>, parts |-> <<>>]

\* An input message; toolCallId.isString = FALSE when the field is no string
Msg(role, content) ==
  [role |-> role, content |-> content, toolCallId |-> [isString |-> FALSE, id |-> NoId]]

ToolResultMsg(role, content, id) ==
  [role |-> role, content |-> content, toolCallId |-> [isString |-> TRUE, id |-> id]]

\* ---------------------------------------------------------------- wire messages

\* OpenAIChatMessage.content: string | null
NullContent == [isNull |-> TRUE, s |-> <<>>]

StrContent(s) == [isNull |-> FALSE, s |-> s]

\* OpenAIToolCall
WireToolCall(id, name, args) ==
  [id |-> id, type |-> "function", function |-> [name |-> name, arguments |-> args]]

\* OpenAIChatMessage; an absent tool_calls is <<>>, an absent tool_call_id is NoId
WireMsg(role, content, toolCalls, toolCallId) ==
  [role |-> role, content |-> content, tool_calls |-> toolCalls,
   tool_call_id |-> toolCallId]

\* ---------------------------------------------------------------- message conversion

RECURSIVE JoinText(_, _)
\* parts.filter(type === "text").map(text).join("")
JoinText(parts, i) ==
  IF i > Len(parts) THEN <<>>
  ELSE (IF parts[i].type = "text" THEN parts[i].text ELSE <<>>) \o JoinText(parts, i + 1)

extractTextContent(content) ==
  IF content.kind = "string" THEN content.s
  ELSE IF content.kind # "array" THEN <<>>
  ELSE JoinText(content.parts, 1)

RECURSIVE ToolCallsFrom(_, _)
ToolCallsFrom(parts, i) ==
  IF i > Len(parts) THEN <<>>
  ELSE (IF parts[i].type = "toolCall"
        THEN <<WireToolCall(parts[i].id, parts[i].name, JSONstringify(parts[i].arguments))>>
        ELSE IF parts[i].type = "tool_use"
        THEN <<WireToolCall(parts[i].id, parts[i].name, JSONstringify(parts[i].input))>>
        ELSE <<>>)
       \o ToolCallsFrom(parts, i + 1)

extractToolCalls(content) ==
  IF content.kind # "array" THEN <<>> ELSE ToolCallsFrom(content.parts, 1)

\* The wire messages of one input message, and the uuids it drew
ConvertOne(msg, u) ==
  IF msg.role = "user"
  THEN [msgs |-> <<WireMsg("user", StrContent(extractTextContent(msg.content)), <<>>, NoId)>>,
        u |-> u]
  ELSE IF msg.role = "assistant"
  THEN LET text == extractTextContent(msg.content)
           toolCalls == extractToolCalls(msg.content)
       IN  [msgs |-> <<WireMsg("assistant",
                               IF text # <<>> THEN StrContent(text) ELSE NullContent,
                               toolCalls, NoId)>>,
            u |-> u]
  ELSE IF msg.role = "tool" \/ msg.role = "toolResult"
  THEN LET text == extractTextContent(msg.content)
           fresh == ~msg.toolCallId.isString
           toolCallId == IF fresh THEN Id("unknown_", u) ELSE msg.toolCallId.id
       IN  [msgs |-> <<WireMsg("tool", StrContent(text), <<>>, toolCallId)>>,
            u |-> IF fresh THEN u + 1 ELSE u]
  ELSE [msgs |-> <<>>, u |-> u]

RECURSIVE ConvertFrom(_, _, _)
ConvertRestSameUuid(messages, i, one) ==
  [msgs |-> one.msgs, u |-> one.u, rest |-> ConvertFrom(messages, i + 1, 1)]

\* The rest of the loop, run with the uuids left after message i
ConvertRest(messages, i, one) ==
  [msgs |-> one.msgs, u |-> one.u, rest |-> ConvertFrom(messages, i + 1, one.u)]

ConvertJoin(r) == [msgs |-> r.msgs \o r.rest.msgs, u |-> r.rest.u]

\* for (const msg of messages) from message i on
ConvertFrom(messages, i, u) ==
  IF i > Len(messages) THEN [msgs |-> <<>>, u |-> u]
  ELSE ConvertJoin(ConvertRest(messages, i, ConvertOne(messages[i], u)))

SystemMessage(system) ==
  IF system.present /\ system.s # <<>>
  THEN <<WireMsg("system", StrContent(system.s), <<>>, NoId)>>
  ELSE <<>>

WithSystem(system, rest) == [msgs |-> SystemMessage(system) \o rest.msgs, u |-> rest.u]

\* system: [present, s]; `if (system)` is false for undefined and for ""
convertToOpenAIMessages(messages, system, u) ==
  WithSystem(system, ConvertFrom(messages, 1, u))

\* ---------------------------------------------------------------- argument unwrapping

\* On the result of JSON.parse(args): a string result replaces args
Unwrapped(tc, parsed) ==
  IF parsed.ok /\ parsed.val.t = "str"
  THEN [tc EXCEPT !.function.arguments = parsed.val.v]
  ELSE tc

UnwrapOneNever(tc) == tc

UnwrapOne(tc) == Unwrapped(tc, JSONparse(tc.function.arguments))

unwrapToolCallArgs(toolCalls) == [i \in 1..Len(toolCalls) |-> UnwrapOne(toolCalls[i])]

\* ---------------------------------------------------------------- text post-processing

stripThinkingBlockAlwaysTrims(text) ==
  IF text = <<>> THEN text
  ELSE Trim(SubSeq(text, LastIndexOf(text, "</think>") + 1, Len(text)))

stripThinkingBlockNever(text) == text

stripThinkingBlock(text) ==
  IF text = <<>> THEN text
  ELSE LET closeIdx == LastIndexOf(text, "</think>")
       IN  IF closeIdx = 0 THEN text
           ELSE Trim(SubSeq(text, closeIdx + 1, Len(text)))

\* typeof parsed.arguments === "string" ? parsed.arguments
\*                                      : JSON.stringify(parsed.arguments ?? {})
InlineArguments(args) ==
  IF args.found /\ args.val.t = "str" THEN args.val.v
  ELSE IF args.found /\ args.val.t # "null" THEN JSONstringify(args.val)
  ELSE JSONstringify(EmptyObj)

\* if (parsed.name) toolCalls.push(...), for name = parsed.name, args = parsed.arguments
InlinePush(name, args, u) ==
  IF name.found /\ Truthy(name.val)
  THEN [toolCalls |-> <<WireToolCall(Id("inline_call_", u), name.val, InlineArguments(args))>>,
        warns |-> 0]
  ELSE [toolCalls |-> <<>>, warns |-> 0]

InlineParsedSilent(parsed, u) ==
  IF ~parsed.ok \/ parsed.val.t = "null"
  THEN [toolCalls |-> <<>>, warns |-> 0]
  ELSE InlinePush(Get(parsed.val, "name"), Get(parsed.val, "arguments"), u)

\* The try block of the replace callback on the parse result: a SyntaxError of
\* JSON.parse and the TypeError of null.name are caught and logged
InlineParsed(parsed, u) ==
  IF ~parsed.ok \/ parsed.val.t = "null"
  THEN [toolCalls |-> <<>>, warns |-> 1]
  ELSE InlinePush(Get(parsed.val, "name"), Get(parsed.val, "arguments"), u)

\* The replace callback of extractInlineToolCalls on one block body:
\* the calls it pushes and the warnings it logs
InlineBlock(jsonStr, u) == InlineParsed(JSONparse(Trim(jsonStr)), u)

\* The text outside the blocks, the calls and the warnings of a block and of what follows it
ReplaceJoin(before, blk, rest) ==
  [out |-> before \o rest.out,
   toolCalls |-> blk.toolCalls \o rest.toolCalls,
   u |-> rest.u,
   warns |-> blk.warns + rest.warns]

RECURSIVE ReplaceBlocks(_, _, _)
ReplaceMatchSameUuid(text, i, open, close, blk, u) ==
  ReplaceJoin(SubSeq(text, i, open - 1), blk, ReplaceBlocks(text, close + 1, u))

\* One match text[open..close], replaced by "", and the matches after it
ReplaceMatch(text, i, open, close, blk, u) ==
  ReplaceJoin(SubSeq(text, i, open - 1), blk,
              ReplaceBlocks(text, close + 1, u + Len(blk.toolCalls)))

\* The match that starts at the <tool_call> at open, when a </tool_call> follows it
ReplaceFrom(text, i, open, close, u) ==
  IF close = 0
  THEN [out |-> SubSeq(text, i, Len(text)), toolCalls |-> <<>>, u |-> u, warns |-> 0]
  ELSE ReplaceMatch(text, i, open, close,
                    InlineBlock(SubSeq(text, open + 1, close - 1), u), u)

\* The leftmost <tool_call> at or after position i
ReplaceOpen(text, i, open, u) ==
  ReplaceFrom(text, i, open,
              IF open = 0 THEN 0 ELSE IndexOfFrom(text, "</tool_call>", open + 1), u)

\* text.replace(TOOL_CALL_RE, callback) from position i on: the leftmost
\* <tool_call> that a </tool_call> follows, up to the first such close
ReplaceBlocks(text, i, u) == ReplaceOpen(text, i, IndexOfFrom(text, "<tool_call>", i), u)

\* The result of the replace, trimmed
Replaced(r) ==
  [remainingText |-> Trim(r.out), toolCalls |-> r.toolCalls, u |-> r.u, warns |-> r.warns]

extractInlineToolCalls(text, u) ==
  IF text = <<>> \/ IndexOfFrom(text, "<tool_call>", 1) = 0
  THEN [remainingText |-> text, toolCalls |-> <<>>, u |-> u, warns |-> 0]
  ELSE Replaced(ReplaceBlocks(text, 1, u))

\* ---------------------------------------------------------------- response conversion

\* ProviderCompatConfig
Compat(disableStreaming, unwrapToolArgs) ==
  [disableStreaming |-> disableStreaming, unwrapToolArgs |-> unwrapToolArgs]

\* OpenAIChatResponse.usage; present = FALSE when the provider reports none
NoUsage == [present |-> FALSE, prompt_tokens |-> 0, completion_tokens |-> 0, total_tokens |-> 0]

ZeroCost == [input |-> 0, output |-> 0, cacheRead |-> 0, cacheWrite |-> 0, total |-> 0]

ZeroUsage ==
  [input |-> 0, output |-> 0, cacheRead |-> 0, cacheWrite |-> 0, totalTokens |-> 0,
   cost |-> ZeroCost]

\* One entry of choices
Choice(content, toolCalls, reasoning, finish) ==
  [message |-> [role |-> "assistant", content |-> content, tool_calls |-> toolCalls,
                reasoning_content |-> reasoning],
   finish_reason |-> finish]

\* The parsed response body: kind "null" is the JSON text null, hasChoices = FALSE
\* a body without a choices field
Response(hasChoices, choices, usage) ==
  [kind |-> "object", hasChoices |-> hasChoices, choices |-> choices, usage |-> usage]

NullResponse ==
  [kind |-> "null", hasChoices |-> FALSE, choices |-> <<>>, usage |-> NoUsage]

\* const choice = response.choices?.[0]
FirstChoice(response) ==
  IF response.kind = "object" /\ response.hasChoices /\ response.choices # <<>>
  THEN response.choices[1]
  ELSE Choice(NullContent, <<>>, NullContent, "")

ThrowsNoChoicesNever(response) == FALSE

\* The statements that throw before any content is built: reading choices of
\* null (a TypeError), and the check `if (!choice) throw`
ThrowsNoChoices(response) ==
  ~(response.kind = "object" /\ response.hasChoices /\ response.choices # <<>>)

NoChoicesMessage(response) ==
  IF response.kind = "null"
  THEN <<"Cannot read properties of null (reading 'choices')">>
  ELSE <<"OpenAI-compat API returned no choices">>

\* try { parsedArgs = JSON.parse(...) } catch { log.warn(...) } on the parse result r
ParsedArgsOf(r) ==
  [args |-> IF r.ok THEN r.val ELSE EmptyObj, warns |-> IF r.ok THEN 0 ELSE 1]

\* parsedArgs of one tool call: what JSON.parse returns, {} when it throws
ParsedArgs(tc) == ParsedArgsOf(JSONparse(tc.function.arguments))

\* content.push({type: "toolCall", id: tc.id || `compat_call_${randomUUID()}`, ...})
PushToolCall(tc, pa, u, rest) ==
  [parts |-> <<ToolCallPart(IF tc.id = NoId THEN Id("compat_call_", u) ELSE tc.id,
                            tc.function.name, pa.args)>> \o rest.parts,
   u |-> rest.u,
   warns |-> pa.warns + rest.warns]

RECURSIVE ToolCallParts(_, _, _)
\* The loop pushing one toolCall part per tool call
ToolCallParts(toolCalls, i, u) ==
  IF i > Len(toolCalls) THEN [parts |-> <<>>, u |-> u, warns |-> 0]
  ELSE PushToolCall(toolCalls[i], ParsedArgs(toolCalls[i]), u,
                    ToolCallParts(toolCalls, i + 1,
                                  IF toolCalls[i].id = NoId THEN u + 1 ELSE u))

\* The AssistantMessage record; errorMessage is <<>> where the field is absent
AssistantMessage(content, stopReason, errorMessage, usage, modelInfo) ==
  [role |-> "assistant", content |-> content, stopReason |-> stopReason,
   errorMessage |-> errorMessage, api |-> modelInfo.api, provider |-> modelInfo.provider,
   model |-> modelInfo.id, usage |-> usage]

\* const usage: token counts of the provider, 0 when absent; no cost
UsageOf(response) ==
  [input |-> IF response.usage.present THEN response.usage.prompt_tokens ELSE 0,
   output |-> IF response.usage.present THEN response.usage.completion_tokens ELSE 0,
   cacheRead |-> 0,
   cacheWrite |-> 0,
   totalTokens |-> IF response.usage.present THEN response.usage.total_tokens ELSE 0,
   cost |-> ZeroCost]

BuiltMessageTextLast(response, modelInfo, text, toolCalls, built, warns) ==
  [threw |-> FALSE,
   errorMessage |-> <<>>,
   message |-> AssistantMessage(built.parts
                                  \o (IF text # <<>> THEN <<TextPart(text)>> ELSE <<>>),
                                IF Len(toolCalls) > 0 THEN "toolUse" ELSE "stop",
                                <<>>, UsageOf(response), modelInfo),
   u |-> built.u,
   warns |-> warns + built.warns]

\* The returned message: the text part if any, then the toolCall parts
BuiltMessage(response, modelInfo, text, toolCalls, built, warns) ==
  [threw |-> FALSE,
   errorMessage |-> <<>>,
   message |-> AssistantMessage((IF text # <<>> THEN <<TextPart(text)>> ELSE <<>>)
                                  \o built.parts,
                                IF Len(toolCalls) > 0 THEN "toolUse" ELSE "stop",
                                <<>>, UsageOf(response), modelInfo),
   u |-> built.u,
   warns |-> warns + built.warns]

\* if (compat.unwrapToolArgs) toolCalls = unwrapToolCallArgs(toolCalls)
FinalToolCalls(allCalls, compat) ==
  IF compat.unwrapToolArgs THEN unwrapToolCallArgs(allCalls) ELSE allCalls

\* From the final tool-call list on
BuildWithCalls(response, modelInfo, text, toolCalls, u, warns) ==
  BuiltMessage(response, modelInfo, text, toolCalls, ToolCallParts(toolCalls, 1, u), warns)

BuildWithInlineFirst(response, modelInfo, compat, choice, inline, reasoning) ==
  BuildWithCalls(response, modelInfo, inline.remainingText,
                 FinalToolCalls(inline.toolCalls \o choice.message.tool_calls
                                  \o reasoning.toolCalls, compat),
                 reasoning.u, inline.warns + reasoning.warns)

\* let toolCalls = [...(choice.message.tool_calls ?? []), ...inline, ...reasoning]
BuildWithInline(response, modelInfo, compat, choice, inline, reasoning) ==
  BuildWithCalls(response, modelInfo, inline.remainingText,
                 FinalToolCalls(choice.message.tool_calls \o inline.toolCalls
                                  \o reasoning.toolCalls, compat),
                 reasoning.u, inline.warns + reasoning.warns)

\* extractInlineToolCalls(choice.message.reasoning_content || "")
BuildWithText(response, modelInfo, compat, choice, inline) ==
  BuildWithInline(response, modelInfo, compat, choice, inline,
                  extractInlineToolCalls(choice.message.reasoning_content.s, inline.u))

\* extractInlineToolCalls(stripThinkingBlock(choice.message.content || ""))
BuildFromChoice(response, modelInfo, compat, choice, u) ==
  BuildWithText(response, modelInfo, compat, choice,
                extractInlineToolCalls(stripThinkingBlock(choice.message.content.s), u))

\* [threw, errorMessage, message, u, warns]: threw = TRUE is the Error raised
buildAssistantMessage(response, modelInfo, compat, u) ==
  IF ThrowsNoChoices(response)
  THEN [threw |-> TRUE, errorMessage |-> NoChoicesMessage(response),
        message |-> AssistantMessage(<<>>, "error", <<>>, ZeroUsage, modelInfo),
        u |-> u, warns |-> 0]
  ELSE BuildFromChoice(response, modelInfo, compat, FirstChoice(response), u)

\* ---------------------------------------------------------------- tool extraction

\* AgentTool; name "" stands for a missing or non-string name
AgentTool(name, hasDescription, description, hasParameters, parameters) ==
  [name |-> name, hasDescription |-> hasDescription, description |-> description,
   hasParameters |-> hasParameters, parameters |-> parameters]

RECURSIVE ToolsFrom(_, _)
ToolsFrom(tools, i) ==
  IF i > Len(tools) THEN <<>>
  ELSE (IF tools[i].name = "" THEN <<>>
        ELSE <<[type |-> "function",
                function |-> [name |-> tools[i].name,
                              description |-> IF tools[i].hasDescription
                                              THEN tools[i].description ELSE "",
                              parameters |-> IF tools[i].hasParameters
                                             THEN tools[i].parameters ELSE EmptyObj]]>>)
       \o ToolsFrom(tools, i + 1)

\* tools: [present, list]
extractOpenAITools(tools) ==
  IF ~tools.present THEN <<>> ELSE ToolsFrom(tools.list, 1)

\* ---------------------------------------------------------------- the request

\* An optional number of the options: [isNumber, n]
NoNumber == [isNumber |-> FALSE, n |-> 0]

Number(n) == [isNumber |-> TRUE, n |-> n]

\* headers[k] = v on a JavaScript object: replaces the entry of that key
RECURSIVE SetHeader(_, _, _)
SetHeader(headers, k, v) ==
  IF headers = <<>> THEN <<[k |-> k, v |-> v]>>
  ELSE IF Head(headers).k = k THEN <<[k |-> k, v |-> v]>> \o Tail(headers)
  ELSE <<Head(headers)>> \o SetHeader(Tail(headers), k, v)

RECURSIVE SpreadHeaders(_, _)
\* { ...acc, ...more }
SpreadHeaders(acc, more) ==
  IF more = <<>> THEN acc
  ELSE SpreadHeaders(SetHeader(acc, Head(more).k, Head(more).v), Tail(more))

RequestHeaders(options) ==
  LET base == SpreadHeaders(<<[k |-> "Content-Type", v |-> "application/json"]>>,
                            options.headers)
  IN  IF options.apiKey # ""
      THEN SetHeader(base, "Authorization", "Bearer " \o options.apiKey)
      ELSE base

RequestBodyAlwaysTools(modelId, openaiMessages, openaiTools, options) ==
  [model |-> modelId,
   messages |-> openaiMessages,
   stream |-> FALSE,
   hasTools |-> TRUE,
   tools |-> openaiTools,
   hasTemperature |-> options.temperature.isNumber,
   temperature |-> options.temperature.n,
   hasMaxTokens |-> options.maxTokens.isNumber,
   max_tokens |-> options.maxTokens.n]

\* The body record; a field whose has-flag is FALSE is absent from the JSON
RequestBody(modelId, openaiMessages, openaiTools, options) ==
  [model |-> modelId,
   messages |-> openaiMessages,
   stream |-> FALSE,
   hasTools |-> Len(openaiTools) > 0,
   tools |-> openaiTools,
   hasTemperature |-> options.temperature.isNumber,
   temperature |-> options.temperature.n,
   hasMaxTokens |-> options.maxTokens.isNumber,
   max_tokens |-> options.maxTokens.n]

NoRequest ==
  [issued |-> FALSE, method |-> "", headers |-> <<>>,
   body |-> RequestBody("", <<>>, <<>>,
                        [temperature |-> NoNumber, maxTokens |-> NoNumber])]

RequestOf(modelId, context, options, conv) ==
  [request |-> [issued |-> TRUE, method |-> "POST",
                headers |-> RequestHeaders(options),
                body |-> RequestBody(modelId, conv.msgs,
                                     extractOpenAITools(context.tools), options)],
   u |-> conv.u]

\* The fetch(chatUrl, {method, headers, body, signal}) of one call
BuildRequest(modelId, context, options, u) ==
  RequestOf(modelId, context, options,
            convertToOpenAIMessages(context.messages, context.systemPrompt, u))

\* ---------------------------------------------------------------- the event stream

\* The stream of createAssistantMessageEventStream: the events pushed, and ended
NewStream == [events |-> <<>>, ended |-> FALSE]

\* event.message is the `message` of a done event and the `error` of an error event
StreamPush(s, type, reason, message) ==
  [s EXCEPT !.events = Append(@, [type |-> type, reason |-> reason, message |-> message])]

StreamEndSkipped(s) == s

StreamEnd(s) == [s EXCEPT !.ended = TRUE]

\* ---------------------------------------------------------------- errors and promises

Err(name, message) == [name |-> name, message |-> message]

NoErr == Err("", <<>>)

AbortError == Err("AbortError", <<"This operation was aborted">>)

NetworkError == Err("TypeError", <<"fetch failed">>)

SyntaxError == Err("SyntaxError", <<"Unexpected token in JSON">>)

\* The promise the run awaits: of fetch, of response.text() or of response.json()
PromiseOf(state, text, body, error) ==
  [state |-> state, text |-> text, body |-> body, error |-> error]

NoPromise == PromiseOf("none", "", NullResponse, NoErr)

Pending == PromiseOf("pending", "", NullResponse, NoErr)

Rejected(error) == PromiseOf("rejected", "", NullResponse, error)

\* A promise started under the call's signal rejects at once when it is aborted
Start(aborted) == IF aborted THEN Rejected(AbortError) ELSE Pending

\* response.ok
ResponseOk(status) == status >= 200 /\ status <= 299

HttpErrorMessageNoStatus(status, errorText) == <<"OpenAI-compat API error ", ": ", errorText>>

\* `OpenAI-compat API error ${response.status}: ${errorText}`; status as its digits
HttpErrorMessage(status, errorText) ==
  <<"OpenAI-compat API error ", ToString(status), ": ", errorText>>

\* ---------------------------------------------------------------- inputs of the transport

ModelInfo == [api |-> "openai-completions", provider |-> "nous", id |-> "hermes-4"]

ModelId == "hermes-4"

NameX == JStr(Txt(<<"x">>))

NameY == JStr(Txt(<<"y">>))

ObjA == JObj(<<Member("a", JNum("1"))>>)

RECURSIVE Encode(_, _)
\* The JSON text of val, encoded k times (k = 2 is double-encoded)
Encode(val, k) ==
  IF k <= 1 THEN JSONstringify(val) ELSE JSONstringify(JStr(Encode(val, k - 1)))

InlineCallText(name, args) ==
  Txt(<<"<tool_call>">>)
  \o JSONstringify(JObj(<<Member("name", name), Member("arguments", args)>>))
  \o Txt(<<"</tool_call>">>)

Usage(p, c) == [present |-> TRUE, prompt_tokens |-> p, completion_tokens |-> c, total_tokens |-> p + c]

\* context: messages, systemPrompt [present, s], tools [present, list]
ContextPool ==
  << [messages |-> <<Msg("user", StringContent(Txt(<<"hi">>)))>>,
      systemPrompt |-> [present |-> TRUE, s |-> Txt(<<"sys">>)],
      tools |-> [present |-> TRUE,
                 list |-> <<AgentTool("read", TRUE, "reads", TRUE, ObjA),
                            AgentTool("", FALSE, "", FALSE, EmptyObj)>>]],
     [messages |-> <<Msg("user", ArrayContent(<<TextPart(Txt(<<"hi">>)), ImagePart>>)),
                     Msg("assistant", ArrayContent(<<ToolCallPart(Id("call_", 1), NameX, ObjA)>>)),
                     Msg("toolResult", StringContent(Txt(<<"ok">>)))>>,
      systemPrompt |-> [present |-> FALSE, s |-> <<>>],
      tools |-> [present |-> FALSE, list |-> <<>>]],
     [messages |-> <<>>,
      systemPrompt |-> [present |-> TRUE, s |-> <<>>],
      tools |-> [present |-> TRUE,
                 list |-> <<AgentTool("", TRUE, "nameless", TRUE, ObjA)>>]] >>

\* options: temperature, maxTokens, headers, apiKey (the signal is the variable signal)
OptionsPool ==
  << [temperature |-> NoNumber, maxTokens |-> NoNumber, headers |-> <<>>, apiKey |-> ""],
     [temperature |-> Number(1), maxTokens |-> Number(2),
      headers |-> <<[k |-> "X-Trace", v |-> "t"]>>, apiKey |-> "key"],
     [temperature |-> Number(0), maxTokens |-> NoNumber,
      headers |-> <<[k |-> "Content-Type", v |-> "text/plain"]>>, apiKey |-> ""] >>

\* The statuses the provider answers with
StatusPool == <<200, 404, 500>>

\* The texts response.text() yields for an error body
ErrorTextPool == <<"overloaded", "">>

\* The bodies response.json() yields
BodyPool ==
  << NullResponse,
     Response(FALSE, <<>>, NoUsage),
     Response(TRUE, <<>>, Usage(1, 2)),
     Response(TRUE, <<Choice(StrContent(Txt(<<"hello">>)), <<>>, NullContent, "stop")>>,
              Usage(1, 2)),
     Response(TRUE, <<Choice(NullContent, <<WireToolCall(Id("call_", 1), NameX, Encode(ObjA, 2))>>,
                             NullContent, "tool_calls")>>, NoUsage),
     Response(TRUE, <<Choice(StrContent(Txt(<<"<think>", "hm", "</think>", " ">>)
                                        \o InlineCallText(NameY, ObjA)),
                             <<>>, NullContent, "length")>>, NoUsage) >>

\* ---------------------------------------------------------------- state

VARIABLES
  caller,    \* the caller of the StreamFn: "idle", "inCall" (inside the StreamFn's
             \* synchronous body), "listening" (holds the stream, listeners attached)
  pc,        \* run(): "none", "scheduled", "awaitFetch", "awaitText", "awaitJson", "finished"
  signal,    \* options.signal.aborted
  call,      \* the arguments of the call: context, options, and the factory's compat
  request,   \* the request fetch was called with
  response,  \* the Response fetch resolved with: [received, status]
  promise,   \* the promise run() awaits
  stream,    \* the returned event stream
  uuid,      \* the next value of randomUUID()
  phase,     \* the step of a function specification ("off" in the transport)
  input,     \* its input
  output     \* its output

tvars == <<caller, pc, signal, call, request, response, promise, stream, uuid>>

fvars == <<phase, input, output>>

vars == <<caller, pc, signal, call, request, response, promise, stream, uuid,
          phase, input, output>>

NoCall == [context |-> ContextPool[1], options |-> OptionsPool[1], compat |-> Compat(TRUE, FALSE)]

NoResponse == [received |-> FALSE, status |-> 0]

TransportInit ==
  /\ caller = "idle"
  /\ pc = "none"
  /\ signal = FALSE
  /\ call = NoCall
  /\ request = NoRequest
  /\ response = NoResponse
  /\ promise = NoPromise
  /\ stream = NewStream
  /\ uuid = 1

FunctionsOff == phase = "off" /\ input = <<>> /\ output = <<>>

Init == TransportInit /\ FunctionsOff

\* ---------------------------------------------------------------- the StreamFn

\* The body of the returned StreamFn up to its return: the stream is created and
\* run() is queued as a microtask
StreamFnCall(context, options, compat) ==
  /\ caller = "idle"
  /\ pc = "none"
  /\ caller' = "inCall"
  /\ call' = [context |-> context, options |-> options, compat |-> compat]
  /\ stream' = NewStream
  /\ pc' = "scheduled"
  /\ UNCHANGED <<signal, request, response, promise, uuid, phase, input, output>>

\* `return stream`, and the caller's synchronous code after the call
StreamFnReturn ==
  /\ caller = "inCall"
  /\ caller' = "listening"
  /\ UNCHANGED <<pc, signal, call, request, response, promise, stream, uuid,
                 phase, input, output>>

\* The caller aborts the signal it passed: a pending promise of the call rejects
Abort ==
  /\ ~signal
  /\ caller # "inCall"
  /\ signal' = TRUE
  /\ promise' = IF promise.state = "pending" THEN Rejected(AbortError) ELSE promise
  /\ UNCHANGED <<caller, pc, call, request, response, stream, uuid, phase, input, output>>

RunMayStartSync(cl) == TRUE

\* queueMicrotask: the queued run() starts only once the synchronous code that
\* queued it has returned
RunMayStart(cl) == cl # "inCall"

\* catch (err) { stream.push(error event) }
Catch(s, err) ==
  StreamPush(s, "error", "error",
             AssistantMessage(<<>>, "error", err.message, ZeroUsage, ModelInfo))

\* fetch is called with the request built
IssueRequest(built) ==
  /\ request' = built.request
  /\ uuid' = built.u
  /\ promise' = Start(signal)
  /\ pc' = "awaitFetch"

\* run() from its start to `await fetch(...)`
RunStart ==
  /\ pc = "scheduled"
  /\ RunMayStart(caller)
  /\ IssueRequest(BuildRequest(ModelId, call.context, call.options, uuid))
  /\ UNCHANGED <<caller, signal, call, response, stream, phase, input, output>>

\* The provider answers: fetch resolves with a Response of some status
FetchResolve(status) ==
  /\ pc = "awaitFetch"
  /\ promise.state = "pending"
  /\ promise' = PromiseOf("fulfilled", "", NullResponse, NoErr)
  /\ response' = [received |-> TRUE, status |-> status]
  /\ UNCHANGED <<caller, pc, signal, call, request, stream, uuid, phase, input, output>>

\* The network fails: fetch rejects
FetchReject ==
  /\ pc = "awaitFetch"
  /\ promise.state = "pending"
  /\ promise' = Rejected(NetworkError)
  /\ UNCHANGED <<caller, pc, signal, call, request, response, stream, uuid,
                 phase, input, output>>

\* run() resumed after `await fetch(...)`, up to its next await or to its end
AfterFetch ==
  /\ pc = "awaitFetch"
  /\ promise.state \in {"fulfilled", "rejected"}
  /\ caller # "inCall"
  /\ IF promise.state = "rejected"
     THEN /\ stream' = StreamEnd(Catch(stream, promise.error))
          /\ pc' = "finished"
          /\ UNCHANGED promise
     ELSE /\ promise' = Start(signal)
          /\ pc' = IF ResponseOk(response.status) THEN "awaitJson" ELSE "awaitText"
          /\ UNCHANGED stream
  /\ UNCHANGED <<caller, signal, call, request, response, uuid, phase, input, output>>

\* response.text() resolves with the error body
TextResolve(text) ==
  /\ pc = "awaitText"
  /\ promise.state = "pending"
  /\ promise' = PromiseOf("fulfilled", text, NullResponse, NoErr)
  /\ UNCHANGED <<caller, pc, signal, call, request, response, stream, uuid,
                 phase, input, output>>

\* Reading the body fails: response.text() or response.json() rejects
BodyReject ==
  /\ pc \in {"awaitText", "awaitJson"}
  /\ promise.state = "pending"
  /\ promise' = Rejected(IF pc = "awaitJson" THEN SyntaxError ELSE NetworkError)
  /\ UNCHANGED <<caller, pc, signal, call, request, response, stream, uuid,
                 phase, input, output>>

\* run() resumed after `await response.text().catch(() => "unknown error")`
AfterText ==
  /\ pc = "awaitText"
  /\ promise.state \in {"fulfilled", "rejected"}
  /\ caller # "inCall"
  /\ LET errorText == IF promise.state = "fulfilled" THEN promise.text ELSE "unknown error"
         err == Err("Error", HttpErrorMessage(response.status, errorText))
     IN  stream' = StreamEnd(Catch(stream, err))
  /\ pc' = "finished"
  /\ UNCHANGED <<caller, signal, call, request, response, promise, uuid,
                 phase, input, output>>

\* response.json() resolves with the parsed body
JsonResolve(body) ==
  /\ pc = "awaitJson"
  /\ promise.state = "pending"
  /\ promise' = PromiseOf("fulfilled", "", body, NoErr)
  /\ UNCHANGED <<caller, pc, signal, call, request, response, stream, uuid,
                 phase, input, output>>

DoneReasonAlwaysStop(message) == "stop"

\* The reduced stop reason of the done event
DoneReason(message) == IF message.stopReason = "toolUse" THEN "toolUse" ELSE "stop"

\* After buildAssistantMessage: its error is caught, its message is pushed as done
EmitBuilt(built) ==
  IF built.threw
  THEN /\ stream' = StreamEnd(Catch(stream, Err("Error", built.errorMessage)))
       /\ UNCHANGED uuid
  ELSE /\ stream' = StreamEnd(StreamPush(stream, "done", DoneReason(built.message),
                                         built.message))
       /\ uuid' = built.u

\* run() resumed after `await response.json()`, to its end
AfterJson ==
  /\ pc = "awaitJson"
  /\ promise.state \in {"fulfilled", "rejected"}
  /\ caller # "inCall"
  /\ IF promise.state = "rejected"
     THEN /\ stream' = StreamEnd(Catch(stream, promise.error))
          /\ UNCHANGED uuid
     ELSE EmitBuilt(buildAssistantMessage(promise.body, ModelInfo, call.compat, uuid))
  /\ pc' = "finished"
  /\ UNCHANGED <<caller, signal, call, request, response, promise, phase, input, output>>

Next ==
  \/ \E i \in 1..Len(ContextPool), j \in 1..Len(OptionsPool), unwrap \in BOOLEAN :
       StreamFnCall(ContextPool[i], OptionsPool[j], Compat(TRUE, unwrap))
  \/ StreamFnReturn
  \/ Abort
  \/ RunStart
  \/ \E i \in 1..Len(StatusPool) : FetchResolve(StatusPool[i])
  \/ FetchReject
  \/ AfterFetch
  \/ \E i \in 1..Len(ErrorTextPool) : TextResolve(ErrorTextPool[i])
  \/ BodyReject
  \/ AfterText
  \/ \E i \in 1..Len(BodyPool) : JsonResolve(BodyPool[i])
  \/ AfterJson

Spec == Init /\ [][Next]_vars

\* ---------------------------------------------------------------- the transport's claims

\* The last event pushed to a stream
LastEvent(s) == s.events[Len(s.events)]

\* The error event every failure of the call produces
GenericError(e) == e.type = "error" /\ e.reason = "error" /\ e.message.stopReason = "error"

OneTerminalEvent ==
  /\ Len(stream.events) <= 1
  /\ \A i \in 1..Len(stream.events) : stream.events[i].type \in {"done", "error"}
  /\ stream.ended <=> pc = "finished"
  /\ stream.ended => Len(stream.events) = 1

\* C1: a call pushes exactly one event, a done or an error, on every path; the
\* stream is ended right after it (never before, and always once run() is over),
\* and no event is pushed to an ended stream.
C1_ExactlyOneTerminalEvent ==
  /\ []OneTerminalEvent
  /\ [][stream.ended => stream'.events = stream.events]_vars

\* C1's case: a call that ended on a body that is not JSON, with its one error event
C1_Witness ==
  /\ pc = "finished"
  /\ promise.error = SyntaxError
  /\ stream.ended
  /\ Len(stream.events) = 1
  /\ stream.events[1].type = "error"

\* The call ended because the signal was aborted before fetch resolved
AbortedBeforeResponse ==
  pc = "finished" /\ ~response.received /\ promise.error.name = "AbortError"

\* C2: a call whose signal is aborted before the HTTP request resolves does not
\* end in the generic error event (reason "error", stopReason "error") that a
\* network or an HTTP failure produces.
C2_AbortDistinguishable ==
  AbortedBeforeResponse => \A i \in 1..Len(stream.events) : ~GenericError(stream.events[i])

\* C3: once the signal is aborted, no step of the call pushes a done event.
C3_NoDoneAfterAbort ==
  [][(signal /\ stream'.events # stream.events) => LastEvent(stream').type # "done"]_vars

\* C4: the request is issued, and any event is pushed, only after the stream was
\* returned to the caller and the caller's synchronous code has run.
C4_HandleBeforeRun ==
  (request.issued \/ stream.events # <<>> \/ pc \notin {"none", "scheduled"})
    => caller = "listening"

\* C4's case: the request went out and an event was pushed, the caller listening
C4_Witness == request.issued /\ stream.events # <<>> /\ caller = "listening"

\* fetch resolved with a status outside 200..299
HttpFailed == response.received /\ (response.status < 200 \/ response.status > 299)

\* C5: after a non-success status no done event is ever pushed, and the call ends
\* with exactly one error event whose errorMessage holds the status and the body
\* text ("unknown error" when the body could not be read), with empty content and
\* zero usage, on an ended stream.
C5_HttpErrorEvent ==
  HttpFailed =>
    /\ \A i \in 1..Len(stream.events) : stream.events[i].type # "done"
    /\ pc = "finished" =>
         /\ stream.ended
         /\ Len(stream.events) = 1
         /\ stream.events[1].type = "error"
         /\ stream.events[1].message.errorMessage
              = <<"OpenAI-compat API error ", ToString(response.status), ": ",
                  IF promise.state = "fulfilled" THEN promise.text ELSE "unknown error">>
         /\ stream.events[1].message.content = <<>>
         /\ stream.events[1].message.usage.input = 0
         /\ stream.events[1].message.usage.output = 0
         /\ stream.events[1].message.usage.cacheRead = 0
         /\ stream.events[1].message.usage.cacheWrite = 0
         /\ stream.events[1].message.usage.totalTokens = 0
         /\ stream.events[1].message.usage.cost.total = 0

\* C5's case: a 500 whose body could not be read
C5_Witness ==
  /\ pc = "finished"
  /\ response.status = 500
  /\ promise.state = "rejected"
  /\ stream.events[1].message.errorMessage[4] = "unknown error"

\* The body response.json() resolved with has no first choice
ChoicesMissing ==
  /\ response.received
  /\ response.status >= 200 /\ response.status <= 299
  /\ promise.state = "fulfilled"
  /\ pc \in {"awaitJson", "finished"}
  /\ \/ promise.body.kind # "object"
     \/ ~promise.body.hasChoices
     \/ promise.body.choices = <<>>

\* C6: a response without a first choice never yields a done event (no default
\* empty message): the call ends with the single error event, which carries the
\* "no choices" error when the body is an object.
C6_NoChoicesIsError ==
  ChoicesMissing =>
    /\ \A i \in 1..Len(stream.events) : stream.events[i].type # "done"
    /\ pc = "finished" =>
         /\ Len(stream.events) = 1
         /\ GenericError(stream.events[1])
         /\ stream.events[1].message.content = <<>>
         /\ promise.body.kind = "object" =>
              stream.events[1].message.errorMessage
                = <<"OpenAI-compat API returned no choices">>

\* C6's case: a call that ended on a body with an empty choices list
C6_Witness ==
  /\ pc = "finished"
  /\ ChoicesMissing
  /\ promise.body.kind = "object"
  /\ promise.body.hasChoices
  /\ stream.ended

\* ---------------------------------------------------------------- buildAssistantMessage on tool-call arguments

\* The longest tool_calls list of a drawn response
MaxToolCalls == 2

\* An object whose member is a string that holds quotes
ObjQ == JObj(<<Member("q", JStr(<<Tk("say"), Quote(0), Tk("hi"), Quote(0)>>))>>)

\* Argument strings: text, and where text is obj encoded enc times, enc and obj
\* (enc = 0: the text is no encoding of an object)
ArgPool ==
  << [text |-> Encode(ObjA, 1), enc |-> 1, obj |-> ObjA],
     [text |-> Encode(ObjA, 2), enc |-> 2, obj |-> ObjA],
     [text |-> Encode(ObjA, 3), enc |-> 3, obj |-> ObjA],
     [text |-> Encode(EmptyObj, 1), enc |-> 1, obj |-> EmptyObj],
     [text |-> Encode(ObjQ, 1), enc |-> 1, obj |-> ObjQ],
     [text |-> Encode(ObjQ, 2), enc |-> 2, obj |-> ObjQ],
     [text |-> Txt(<<"oops">>), enc |-> 0, obj |-> EmptyObj],
     [text |-> <<>>, enc |-> 0, obj |-> EmptyObj],
     [text |-> Txt(<<"1">>), enc |-> 0, obj |-> EmptyObj],
     [text |-> JSONstringify(JStr(Txt(<<"hi">>))), enc |-> 0, obj |-> EmptyObj] >>

\* A response of n structured tool calls whose argument strings are ArgPool[f[i]]
BuildInput(n, f, unwrap) ==
  [response |->
     Response(TRUE,
              <<Choice(NullContent,
                       [i \in 1..n |-> WireToolCall(Id("call_", i), NameX, ArgPool[f[i]].text)],
                       NullContent, "tool_calls")>>,
              NoUsage),
   compat |-> Compat(TRUE, unwrap),
   origin |-> [i \in 1..n |-> ArgPool[f[i]]]]

BuildInit ==
  /\ TransportInit
  /\ phase = "input"
  /\ output = <<>>
  /\ \E n \in 0..MaxToolCalls : \E f \in [1..n -> 1..Len(ArgPool)] : \E unwrap \in BOOLEAN :
       input = BuildInput(n, f, unwrap)

\* buildAssistantMessage applied to the drawn response
Build ==
  /\ phase = "input"
  /\ output' = buildAssistantMessage(input.response, ModelInfo, input.compat, 1)
  /\ phase' = "built"
  /\ UNCHANGED <<input, caller, pc, signal, call, request, response, promise, stream, uuid>>

BuildNext == Build

SpecBuild == BuildInit /\ [][BuildNext]_vars

\* The toolCall part built for tool call i of the drawn response (its content is null)
BuiltPart(i) == output.message.content[i]

\* C7: with unwrapToolArgs disabled, a tool call whose argument string is
\* double-encoded is emitted with the empty object as its arguments.
C7_DisabledYieldsEmptyArgs ==
  (phase = "built" /\ ~input.compat.unwrapToolArgs) =>
    \A i \in 1..Len(input.origin) :
      input.origin[i].enc = 2 => BuiltPart(i).arguments = EmptyObj

\* The arguments the claims give tool call i: the object when the final argument
\* string is its JSON text, the empty object otherwise
ClaimedArgs(o, unwrap) ==
  IF o.enc = 1 \/ (unwrap /\ o.enc = 2) THEN o.obj ELSE EmptyObj

\* C8: every toolCall part carries an object as its arguments: the parsed object
\* when the final argument string is the JSON text of an object, and the empty
\* object otherwise (a triple-encoded string after the one unwrap included).
C8_ArgumentsAreObjects ==
  phase = "built" =>
    \A i \in 1..Len(input.origin) :
      /\ BuiltPart(i).type = "toolCall"
      /\ BuiltPart(i).arguments.t = "obj"
      /\ BuiltPart(i).arguments = ClaimedArgs(input.origin[i], input.compat.unwrapToolArgs)

\* C9: with unwrapToolArgs enabled, a double-encoded object O is emitted as O, and
\* a single-encoded object is emitted as that object.
C9_UnwrapRecoversObject ==
  (phase = "built" /\ input.compat.unwrapToolArgs) =>
    /\ ~output.threw
    /\ Len(output.message.content) = Len(input.origin)
    /\ \A i \in 1..Len(input.origin) :
         input.origin[i].enc \in {1, 2} =>
           /\ BuiltPart(i).type = "toolCall"
           /\ BuiltPart(i).arguments = input.origin[i].obj

\* C9's case: a double-encoded object with quotes in a string, beside a
\* single-encoded one, both recovered
C9_Witness ==
  /\ phase = "built"
  /\ input.compat.unwrapToolArgs
  /\ Len(input.origin) = 2
  /\ input.origin[1].enc = 2 /\ input.origin[1].obj = ObjQ
  /\ input.origin[2].enc = 1
  /\ BuiltPart(1).arguments = ObjQ
  /\ BuiltPart(2).arguments = input.origin[2].obj

\* ---------------------------------------------------------------- the conversion round trip

\* The most content parts of a drawn assistant message
MaxParts == 3

\* Content parts: plain text, text holding an inline block, text holding a
\* closing think marker, tool calls under both namings, one without an id, an image
PartPool ==
  << TextPart(Txt(<<"a">>)),
     TextPart(Txt(<<"b">>)),
     ToolCallPart(Id("call_", 1), NameX, ObjA),
     ToolUsePart(Id("call_", 2), NameY, ObjQ),
     ImagePart,
     TextPart(InlineCallText(NameY, EmptyObj)),
     ToolCallPart(NoId, NameX, EmptyObj),
     TextPart(Txt(<<"t", "</think>", "c">>)) >>

RoundTripInit ==
  /\ TransportInit
  /\ phase = "input"
  /\ output = <<>>
  /\ \E n \in 0..MaxParts : \E f \in [1..n -> 1..Len(PartPool)] : \E unwrap \in BOOLEAN :
       input = [parts |-> [i \in 1..n |-> PartPool[f[i]]], compat |-> Compat(TRUE, unwrap)]

\* convertToOpenAIMessages on the one assistant message: its wire message
ToWire ==
  /\ phase = "input"
  /\ output' = convertToOpenAIMessages(<<Msg("assistant", ArrayContent(input.parts))>>,
                                       [present |-> FALSE, s |-> <<>>], 1).msgs[1]
  /\ phase' = "wire"
  /\ UNCHANGED <<input, caller, pc, signal, call, request, response, promise, stream, uuid>>

\* The provider answers with that wire message: buildAssistantMessage on it
FromWire ==
  /\ phase = "wire"
  /\ output' = buildAssistantMessage(
                 Response(TRUE, <<Choice(output.content, output.tool_calls, NullContent, "stop")>>,
                          NoUsage),
                 ModelInfo, input.compat, 1)
  /\ phase' = "back"
  /\ UNCHANGED <<input, caller, pc, signal, call, request, response, promise, stream, uuid>>

RoundTripNext == ToWire \/ FromWire

SpecRoundTrip == RoundTripInit /\ [][RoundTripNext]_vars

IsCall(part) == part.type \in {"toolCall", "tool_use"}

\* The structured arguments of a tool-call request under either naming
ArgsOf(part) == IF part.type = "tool_use" THEN part.input ELSE part.arguments

\* small occurs in big as a run of tokens
Contains(big, small) ==
  \E k \in 0..(Len(big) - Len(small)) : SubSeq(big, k + 1, k + Len(small)) = small

\* In the content that came back, the text of part j stands before the call of part i
TextCameBeforeCall(i, j) ==
  \E a, b \in 1..Len(output.message.content) :
    /\ a < b
    /\ output.message.content[a].type = "text"
    /\ Contains(output.message.content[a].text, input.parts[j].text)
    /\ output.message.content[b].type = "toolCall"
    /\ output.message.content[b].name = input.parts[i].name
    /\ output.message.content[b].arguments = ArgsOf(input.parts[i])

\* C10 as claimed: the content parts come back in the same relative order: a
\* tool call that stood before a text part does not come back after that text.
C10_OrderPreserved ==
  phase = "back" =>
    \A i, j \in 1..Len(input.parts) :
      (i < j /\ IsCall(input.parts[i]) /\ input.parts[j].type = "text")
        => ~TextCameBeforeCall(i, j)

\* The tool-call requests of the message, and the toolCall parts that came back
CallsIn == SelectSeq(input.parts, IsCall)

IsToolCallPart(part) == part.type = "toolCall"

CallsBack == SelectSeq(output.message.content, IsToolCallPart)

\* C10 amended: the tool-call requests come back in their input order, as the
\* first toolCall parts, each with its name, its arguments and (when not empty)
\* its id; all text comes back as at most one part, placed before every toolCall
\* part, whatever its place among the tool calls of the input.
C10_CallsKeepOrderTextFirst ==
  phase = "back" =>
    /\ ~output.threw
    /\ Len(CallsBack) >= Len(CallsIn)
    /\ \A k \in 1..Len(CallsIn) :
         /\ CallsBack[k].name = CallsIn[k].name
         /\ CallsBack[k].arguments = ArgsOf(CallsIn[k])
         /\ CallsIn[k].id # NoId => CallsBack[k].id = CallsIn[k].id
    /\ \A a \in 1..Len(output.message.content) :
         output.message.content[a].type = "text" => a = 1

\* C10's case: a tool call, then text, then a tool call under the other naming
C10_Witness ==
  /\ phase = "back"
  /\ Len(input.parts) = 3
  /\ input.parts[1].type = "toolCall"
  /\ input.parts[2].type = "text"
  /\ input.parts[3].type = "tool_use"
  /\ Len(output.message.content) = 3
  /\ output.message.content[1].type = "text"
  /\ output.message.content[3].id = input.parts[3].id

\* ---------------------------------------------------------------- convertToOpenAIMessages on message lists

\* The most messages of a drawn context
MaxMessages == 3

\* Input messages: every role the converter handles, with content that is a
\* string, an array, empty or no text at all, with and without a toolCallId, and
\* a message of a role the converter has no branch for
MessagePool ==
  << Msg("user", StringContent(Txt(<<"hi">>))),
     Msg("user", StringContent(<<>>)),
     Msg("user", ArrayContent(<<ImagePart>>)),
     Msg("assistant", ArrayContent(<<TextPart(Txt(<<"a">>)), ToolCallPart(Id("call_", 1), NameX, ObjA)>>)),
     Msg("assistant", ArrayContent(<<ToolUsePart(Id("call_", 2), NameY, EmptyObj)>>)),
     Msg("assistant", StringContent(<<>>)),
     ToolResultMsg("toolResult", StringContent(Txt(<<"ok">>)), Id("call_", 1)),
     Msg("toolResult", StringContent(Txt(<<"ok">>))),
     Msg("tool", OtherContent),
     Msg("developer", StringContent(Txt(<<"note">>))) >>

\* The system prompts: undefined, the empty string, a text
SystemPool ==
  << [present |-> FALSE, s |-> <<>>],
     [present |-> TRUE, s |-> <<>>],
     [present |-> TRUE, s |-> Txt(<<"sys">>)] >>

ConvertInit ==
  /\ TransportInit
  /\ phase = "input"
  /\ output = <<>>
  /\ \E n \in 0..MaxMessages : \E f \in [1..n -> 1..Len(MessagePool)] :
       \E k \in 1..Len(SystemPool) :
         input = [messages |-> [i \in 1..n |-> MessagePool[f[i]]], system |-> SystemPool[k]]

\* convertToOpenAIMessages applied to the drawn messages and system prompt
Convert ==
  /\ phase = "input"
  /\ output' = convertToOpenAIMessages(input.messages, input.system, 1)
  /\ phase' = "converted"
  /\ UNCHANGED <<input, caller, pc, signal, call, request, response, promise, stream, uuid>>

ConvertNext == Convert

SpecConvert == ConvertInit /\ [][ConvertNext]_vars

\* C12: no wire message of any role carries the empty string as its content: an
\* empty content is null.
C12_EmptyContentIsNull ==
  phase = "converted" =>
    \A i \in 1..Len(output.msgs) :
      output.msgs[i].content.isNull \/ output.msgs[i].content.s # <<>>

\* The system prompt is given: present and not empty
SystemGiven == input.system.present /\ input.system.s # <<>>

\* The wire role the spec gives an input role
WireRole(role) == IF role = "toolResult" THEN "tool" ELSE role

\* C13: the output is the system prompt (when given) followed by exactly one wire
\* message per input message, in input order, whatever the role of the message.
C13_OneWireMessagePerInput ==
  phase = "converted" =>
    LET off == IF SystemGiven THEN 1 ELSE 0
    IN  /\ Len(output.msgs) = Len(input.messages) + off
        /\ SystemGiven => /\ output.msgs[1].role = "system"
                          /\ output.msgs[1].content = StrContent(input.system.s)
        /\ \A i \in 1..Len(input.messages) :
             i + off <= Len(output.msgs)
               => output.msgs[i + off].role = WireRole(input.messages[i].role)

IsToolRole(msg) == msg.role \in {"tool", "toolResult"}

\* The tool-result turns of the input, and the wire messages of role tool
ToolTurns == SelectSeq(input.messages, IsToolRole)

ToolWires == SelectSeq(output.msgs, IsToolRole)

RECURSIVE CallIdsFrom(_, _)
\* The ids of the tool calls the wire messages from i on carry
CallIdsFrom(msgs, i) ==
  IF i > Len(msgs) THEN <<>>
  ELSE [k \in 1..Len(msgs[i].tool_calls) |-> msgs[i].tool_calls[k].id] \o CallIdsFrom(msgs, i + 1)

\* Every id of the converted sequence: the back-references, then the tool calls' ids
IdsOut == [k \in 1..Len(ToolWires) |-> ToolWires[k].tool_call_id] \o CallIdsFrom(output.msgs, 1)

\* C20: the k-th wire message of role tool belongs to the k-th tool-result turn;
\* its tool_call_id is the turn's toolCallId when that is a string, and otherwise
\* an id prefixed unknown_ that occurs nowhere else in the converted sequence.
C20_ToolCallIdPresentAndDistinct ==
  phase = "converted" =>
    /\ Len(ToolWires) = Len(ToolTurns)
    /\ \A k \in 1..Len(ToolTurns) :
         IF ToolTurns[k].toolCallId.isString
         THEN ToolWires[k].tool_call_id = ToolTurns[k].toolCallId.id
         ELSE /\ ToolWires[k].tool_call_id.p = "unknown_"
              /\ \A j \in 1..Len(IdsOut) : j # k => IdsOut[j] # ToolWires[k].tool_call_id

\* C20's case: two tool results without an id around one with an id
C20_Witness ==
  /\ phase = "converted"
  /\ Len(ToolTurns) = 3
  /\ ~ToolTurns[1].toolCallId.isString
  /\ ToolTurns[2].toolCallId.isString
  /\ ~ToolTurns[3].toolCallId.isString
  /\ ToolWires[1].tool_call_id.p = "unknown_"
  /\ ToolWires[3].tool_call_id.p = "unknown_"
  /\ ToolWires[1].tool_call_id # ToolWires[3].tool_call_id

\* ---------------------------------------------------------------- the round trip of text-only messages

\* The most text parts of a drawn message
MaxTexts == 2

\* Texts: plain, with whitespace around, whitespace only, holding a closing think
\* marker, holding a whole inline block, holding an opening marker alone, empty
TextPool ==
  << Txt(<<"a">>),
     Txt(<<" ", "a", " ">>),
     Txt(<<" ">>),
     Txt(<<"t", " ", "</think>", " ", "c">>),
     InlineCallText(NameX, ObjA),
     Txt(<<" ", "<tool_call>", "b", " ">>),
     <<>> >>

TextTripInit ==
  /\ TransportInit
  /\ phase = "input"
  /\ output = <<>>
  /\ \E n \in 0..MaxTexts : \E f \in [1..n -> 1..Len(TextPool)] : \E unwrap \in BOOLEAN :
       input = [parts |-> [i \in 1..n |-> TextPart(TextPool[f[i]])],
                compat |-> Compat(TRUE, unwrap)]

\* The round trip of SpecRoundTrip, on messages of text parts only
SpecTextTrip == TextTripInit /\ [][RoundTripNext]_vars

RECURSIVE TextOf(_)
\* The concatenation of the texts of a sequence of text parts
TextOf(parts) == IF parts = <<>> THEN <<>> ELSE Head(parts).text \o TextOf(Tail(parts))

IsTextPart(part) == part.type = "text"

\* The concatenated text that went in, and the one that came back
TextIn == TextOf(input.parts)

TextBack == TextOf(SelectSeq(output.message.content, IsTextPart))

\* C11 as claimed: the concatenated text comes back exactly, for every text.
C11_TextPreserved ==
  phase = "back" => (~output.threw /\ TextBack = TextIn)

\* The text holds a closing think marker or an opening tool-call marker
HasMarker(text) == \E i \in 1..Len(text) : text[i] \in {Tk("</think>"), Tk("<tool_call>")}

\* C11 amended: a text that holds neither </think> nor <tool_call> comes back
\* exactly, leading and trailing whitespace included, as the one text part of the
\* message (as no part when it is empty), and no tool call appears.
C11_TextPreservedWithoutMarkers ==
  (phase = "back" /\ ~HasMarker(TextIn)) =>
    /\ ~output.threw
    /\ TextBack = TextIn
    /\ output.message.content = IF TextIn = <<>> THEN <<>> ELSE <<TextPart(TextIn)>>

\* C11's case: two parts whose text has whitespace at both ends, come back exactly
C11_Witness ==
  /\ phase = "back"
  /\ Len(input.parts) = 2
  /\ ~HasMarker(TextIn)
  /\ Len(TextIn) >= 4
  /\ IsWs(TextIn[1]) /\ IsWs(TextIn[Len(TextIn)])
  /\ TextBack = TextIn

\* ---------------------------------------------------------------- stripThinkingBlock on texts

\* The longest drawn text, in tokens
MaxStripLen == 4

\* The tokens of the drawn texts: both think markers, the opening tool-call
\* marker (the mismatched opening tag), a whitespace and a word
StripAlphabet == <<"<think>", "</think>", "<tool_call>", " ", "a">>

StripInit ==
  /\ TransportInit
  /\ phase = "input"
  /\ output = <<>>
  /\ \E n \in 0..MaxStripLen : \E f \in [1..n -> 1..Len(StripAlphabet)] :
       input = [text |-> Txt([i \in 1..n |-> StripAlphabet[f[i]]])]

\* stripThinkingBlock applied to the drawn text
Strip ==
  /\ phase = "input"
  /\ output' = stripThinkingBlock(input.text)
  /\ phase' = "stripped"
  /\ UNCHANGED <<input, caller, pc, signal, call, request, response, promise, stream, uuid>>

StripNext == Strip

SpecStrip == StripInit /\ [][StripNext]_vars

\* o is s without its leading and trailing whitespace
IsTrimOf(o, s) ==
  /\ o # <<>> => (~IsWs(o[1]) /\ ~IsWs(o[Len(o)]))
  /\ \E a \in 0..Len(s) :
       /\ a + Len(o) <= Len(s)
       /\ SubSeq(s, a + 1, a + Len(o)) = o
       /\ \A j \in 1..a : IsWs(s[j])
       /\ \A j \in (a + Len(o) + 1)..Len(s) : IsWs(s[j])

\* C17: a text that holds </think> strips to the trimmed text after its last
\* </think>, whatever stands before it; a text without </think> is returned as it is.
C17_StripsThroughLastClose ==
  phase = "stripped" =>
    IF \E k \in 1..Len(input.text) : input.text[k] = Tk("</think>")
    THEN \E k \in 1..Len(input.text) :
           /\ input.text[k] = Tk("</think>")
           /\ \A j \in (k + 1)..Len(input.text) : input.text[j] # Tk("</think>")
           /\ IsTrimOf(output, SubSeq(input.text, k + 1, Len(input.text)))
    ELSE output = input.text

\* C17's case: a mismatched opening tag, the closing marker, and a remainder
\* after a whitespace
C17_Witness ==
  /\ phase = "stripped"
  /\ input.text = Txt(<<"<tool_call>", "</think>", " ", "a">>)
  /\ output = Txt(<<"a">>)

\* ---------------------------------------------------------------- the recovery layer on provider responses

\* The most segments of a drawn response text
MaxSegments == 3

NameZ == JStr(Txt(<<"z">>))

NameS == JStr(Txt(<<"s">>))

\* A segment of a response text: its kind, its text and, for a block that holds a
\* call, the call's name, the argument string the extraction gives it (args), the
\* argument string "verbatim when a string, JSON-serialized otherwise" (claimed)
\* and the value that argument string parses to (obj)
Seg(kind, text, name, args, claimed, obj) ==
  [kind |-> kind, text |-> text, name |-> name, args |-> args, claimed |-> claimed, obj |-> obj]

\* Text outside the blocks: kind is "text", "ws" or "think"
PlainSeg(kind, text) == Seg(kind, text, JNull, <<>>, <<>>, JNull)

\* <tool_call>pad body pad</tool_call>
BlockText(pad, body) ==
  Txt(<<"<tool_call>">>) \o pad \o body \o pad \o Txt(<<"</tool_call>">>)

\* A block whose JSON is {"name": name, "arguments": obj}
ObjectCallSeg(name, obj) ==
  Seg("call", InlineCallText(name, obj), name, JSONstringify(obj), JSONstringify(obj), obj)

\* A block, padded with whitespace, whose arguments member is the JSON text of obj
\* as a string
StringCallSeg(name, obj) ==
  Seg("call",
      BlockText(Txt(<<" ">>),
                JSONstringify(JObj(<<Member("name", name),
                                     Member("arguments", JStr(JSONstringify(obj)))>>))),
      name, JSONstringify(obj), JSONstringify(obj), obj)

\* A block whose arguments member is null: parsed.arguments ?? {}
NullArgsCallSeg(name) ==
  Seg("call", InlineCallText(name, JNull), name,
      JSONstringify(EmptyObj), JSONstringify(JNull), EmptyObj)

\* A block whose JSON has a name member that is the empty string
EmptyNameSeg ==
  Seg("falsy", InlineCallText(JStr(<<>>), ObjA), JStr(<<>>),
      JSONstringify(ObjA), JSONstringify(ObjA), ObjA)

\* A block whose body is not JSON
BadSeg == Seg("bad", BlockText(<<>>, Txt(<<"oops">>)), JNull, <<>>, <<>>, JNull)

SegmentPool ==
  << PlainSeg("text", Txt(<<"a">>)),
     PlainSeg("ws", Txt(<<" ">>)),
     PlainSeg("think", Txt(<<"</think>">>)),
     ObjectCallSeg(NameX, ObjA),
     StringCallSeg(NameY, ObjQ),
     BadSeg,
     EmptyNameSeg,
     NullArgsCallSeg(NameY) >>

\* The rest of a response: the structured tool calls (name and arguments value),
\* the segments of reasoning_content (hasReasoning = FALSE: the field is absent),
\* finish_reason, and the factory's unwrapToolArgs
ExtraPool ==
  << [structured |-> <<>>, hasReasoning |-> FALSE, reasoning |-> <<>>,
      finish |-> "stop", unwrap |-> FALSE],
     [structured |-> <<[name |-> NameS, obj |-> ObjA]>>, hasReasoning |-> FALSE,
      reasoning |-> <<>>, finish |-> "tool_calls", unwrap |-> FALSE],
     [structured |-> <<>>, hasReasoning |-> TRUE,
      reasoning |-> <<PlainSeg("text", Txt(<<"r">>)), ObjectCallSeg(NameZ, EmptyObj)>>,
      finish |-> "length", unwrap |-> TRUE],
     [structured |-> <<[name |-> NameS, obj |-> ObjQ]>>, hasReasoning |-> TRUE,
      reasoning |-> <<ObjectCallSeg(NameZ, ObjA), BadSeg, PlainSeg("text", Txt(<<"r">>))>>,
      finish |-> "stop", unwrap |-> TRUE],
     [structured |-> <<>>, hasReasoning |-> TRUE,
      reasoning |-> <<PlainSeg("text", Txt(<<"r">>))>>,
      finish |-> "tool_calls", unwrap |-> FALSE] >>

RECURSIVE SegText(_)
\* The text the segments make up
SegText(segs) == IF segs = <<>> THEN <<>> ELSE Head(segs).text \o SegText(Tail(segs))

\* The provider's response of drawn content segments and a drawn rest
RecoverInput(segs, extra) ==
  [segs |-> segs,
   extra |-> extra,
   text |-> SegText(segs),
   response |->
     Response(TRUE,
              <<Choice(IF segs = <<>> THEN NullContent ELSE StrContent(SegText(segs)),
                       [i \in 1..Len(extra.structured) |->
                          WireToolCall(Id("call_", i), extra.structured[i].name,
                                       JSONstringify(extra.structured[i].obj))],
                       IF extra.hasReasoning THEN StrContent(SegText(extra.reasoning))
                       ELSE NullContent,
                       extra.finish)>>,
              Usage(1, 2)),
   compat |-> Compat(TRUE, extra.unwrap)]

RecoverInit ==
  /\ TransportInit
  /\ phase = "input"
  /\ output = <<>>
  /\ \E n \in 0..MaxSegments : \E f \in [1..n -> 1..Len(SegmentPool)] :
       \E k \in 1..Len(ExtraPool) :
         input = RecoverInput([i \in 1..n |-> SegmentPool[f[i]]], ExtraPool[k])

\* extractInlineToolCalls applied to the drawn text
Extract ==
  /\ phase = "input"
  /\ output' = extractInlineToolCalls(input.text, uuid)
  /\ phase' = "extracted"
  /\ UNCHANGED <<input, caller, pc, signal, call, request, response, promise, stream, uuid>>

\* buildAssistantMessage applied to the drawn response
BuildMessage ==
  /\ phase = "input"
  /\ output' = buildAssistantMessage(input.response, ModelInfo, input.compat, uuid)
  /\ phase' = "built"
  /\ UNCHANGED <<input, caller, pc, signal, call, request, response, promise, stream, uuid>>

\* The rest of run() after buildAssistantMessage: the done event, and stream.end()
Emit ==
  /\ phase = "built"
  /\ EmitBuilt(output)
  /\ phase' = "emitted"
  /\ UNCHANGED <<input, output, caller, pc, signal, call, request, response, promise>>

RecoverNext == Extract \/ BuildMessage \/ Emit

SpecRecover == RecoverInit /\ [][RecoverNext]_vars

\* ---------------------------------------------------------------- the recovery layer's claims

RECURSIVE LastThink(_)
\* The place of the last </think> segment; 0 when there is none
LastThink(segs) ==
  IF segs = <<>> THEN 0
  ELSE IF segs[Len(segs)].kind = "think" THEN Len(segs)
  ELSE LastThink(SubSeq(segs, 1, Len(segs) - 1))

\* The segments after the last </think>
AfterThink(segs) == SubSeq(segs, LastThink(segs) + 1, Len(segs))

IsCallSeg(seg) == seg.kind = "call"

IsBadSeg(seg) == seg.kind = "bad"

IsBlockSeg(seg) == seg.kind \in {"call", "bad", "falsy"}

IsPlainSeg(seg) == ~IsBlockSeg(seg)

\* The text of the segments that are no blocks
PlainText(segs) == SegText(SelectSeq(segs, IsPlainSeg))

\* The calls the blocks of the segments hold, in order of appearance
CallsOf(segs) == SelectSeq(segs, IsCallSeg)

\* The tool calls a response is expected to yield: name and arguments value
ExpectedCalls ==
  input.extra.structured \o CallsOf(AfterThink(input.segs)) \o CallsOf(input.extra.reasoning)

Built == phase \in {"built", "emitted"}

\* C14: the toolCall parts are the structured tool calls (with their ids), then
\* the inline calls of the primary text, then the inline calls of
\* reasoning_content, each group in order of appearance; no text part holds
\* reasoning text.
C14_ToolCallOrder ==
  Built =>
    /\ ~output.threw
    /\ Len(CallsBack) = Len(ExpectedCalls)
    /\ \A k \in 1..Len(CallsBack) :
         k <= Len(ExpectedCalls) =>
           /\ CallsBack[k].name = ExpectedCalls[k].name
           /\ CallsBack[k].arguments = ExpectedCalls[k].obj
           /\ CallsBack[k].id.p = IF k <= Len(input.extra.structured)
                                  THEN "call_" ELSE "inline_call_"
    /\ \A a \in 1..Len(output.message.content) :
         output.message.content[a].type = "text"
           => ~Contains(output.message.content[a].text, Txt(<<"r">>))

\* C14's case: a structured call, an inline call of the text and an inline call
\* of the reasoning, back in that order
C14_Witness ==
  /\ phase = "built"
  /\ Len(input.extra.structured) = 1
  /\ Len(CallsOf(AfterThink(input.segs))) = 1
  /\ Len(CallsOf(input.extra.reasoning)) = 1
  /\ Len(CallsBack) = 3
  /\ CallsBack[1].name = NameS
  /\ CallsBack[2].name \in {NameX, NameY}
  /\ CallsBack[3].name = NameZ

HasToolCallPart == \E a \in 1..Len(output.message.content) : output.message.content[a].type = "toolCall"

\* C15: stopReason is toolUse exactly when the content holds a toolCall part and
\* stop otherwise, whatever finish_reason says, and the done event carries that
\* same reason with the message.
C15_StopReasonFollowsToolCalls ==
  Built =>
    /\ ~output.threw
    /\ output.message.stopReason = IF HasToolCallPart THEN "toolUse" ELSE "stop"
    /\ phase = "emitted" =>
         /\ Len(stream.events) = 1
         /\ stream.events[1].type = "done"
         /\ stream.events[1].message = output.message
         /\ stream.events[1].reason = output.message.stopReason
         /\ stream.events[1].reason \in {"toolUse", "stop"}

\* C15's case: a response cut short (finish_reason length) whose only tool call is
\* an inline one, emitted as toolUse
C15_Witness ==
  /\ phase = "emitted"
  /\ input.extra.finish = "length"
  /\ input.extra.structured = <<>>
  /\ HasToolCallPart
  /\ stream.events[1].reason = "toolUse"

\* The calls of that name among sequence elements, as a number
CountNamed(calls, name) == Cardinality({k \in 1..Len(calls) : calls[k].name = name})

\* C16: with a </think> in the content, the calls named x or y that come back are
\* those of the blocks after the last </think>, and the text that comes back is
\* the trimmed text of the segments after it: a block before it leaves nothing.
C16_ExtractionAfterStripping ==
  (Built /\ LastThink(input.segs) > 0) =>
    /\ \A name \in {NameX, NameY} :
         CountNamed(CallsBack, name) = CountNamed(CallsOf(AfterThink(input.segs)), name)
    /\ IsTrimOf(TextBack, PlainText(AfterThink(input.segs)))

\* C16's case: a block named x before the </think>, one named y after it
C16_Witness ==
  /\ phase = "built"
  /\ Len(input.segs) = 3
  /\ input.segs[1].kind = "call" /\ input.segs[1].name = NameX
  /\ input.segs[2].kind = "think"
  /\ input.segs[3].kind = "call" /\ input.segs[3].name = NameY
  /\ CountNamed(CallsBack, NameX) = 0
  /\ CountNamed(CallsBack, NameY) = 1
  /\ TextBack = <<>>

\* The blocks of the drawn text
Blocks == SelectSeq(input.segs, IsBlockSeg)

BadBlockScanned == \E i \in 1..Len(AfterThink(input.segs)) : AfterThink(input.segs)[i].kind = "bad"

\* C19: a block whose body is not JSON raises nothing; each such block is logged
\* once, yields no tool call and leaves no trace in the text, the other blocks are
\* extracted, and the call ends with the done event.
C19_BadBlockDropped ==
  (Built /\ BadBlockScanned) =>
    /\ ~output.threw
    /\ output.warns = Len(SelectSeq(AfterThink(input.segs), IsBadSeg))
                      + Len(SelectSeq(input.extra.reasoning, IsBadSeg))
    /\ Len(CallsBack) = Len(ExpectedCalls)
    /\ \A a \in 1..Len(output.message.content) :
         output.message.content[a].type = "text" =>
           /\ ~Contains(output.message.content[a].text, Txt(<<"oops">>))
           /\ ~Contains(output.message.content[a].text, Txt(<<"<tool_call>">>))
           /\ ~Contains(output.message.content[a].text, Txt(<<"</tool_call>">>))
    /\ IsTrimOf(TextBack, PlainText(AfterThink(input.segs)))
    /\ phase = "emitted" =>
         /\ stream.ended
         /\ Len(stream.events) = 1
         /\ stream.events[1].type = "done"

\* C19's case: a bad block between a good one and a word, emitted as done
C19_Witness ==
  /\ phase = "emitted"
  /\ Len(input.segs) = 3
  /\ input.segs[1].kind = "call"
  /\ input.segs[2].kind = "bad"
  /\ input.segs[3].kind = "text"
  /\ input.extra.structured = <<>> /\ ~input.extra.hasReasoning
  /\ output.warns = 1
  /\ Len(CallsBack) = 1
  /\ TextBack = Txt(<<"a">>)
  /\ stream.events[1].type = "done"

\* ---------------------------------------------------------------- the request's claims

RECURSIVE HeaderValues(_, _)
\* The values the headers hold under the name k
HeaderValues(headers, k) ==
  IF headers = <<>> THEN <<>>
  ELSE (IF Head(headers).k = k THEN <<Head(headers).v>> ELSE <<>>)
       \o HeaderValues(Tail(headers), k)

\* C21: the request's Content-Type is application/json whatever headers the
\* caller supplies.
C21_ContentTypeIsJson ==
  request.issued => HeaderValues(request.headers, "Content-Type") = <<"application/json">>

\* The caller's context holds a tool descriptor with a non-empty name
HasNamedTool ==
  /\ call.context.tools.present
  /\ \E i \in 1..Len(call.context.tools.list) : call.context.tools.list[i].name # ""

\* C22: the body has stream false; it has tools exactly when a tool descriptor
\* has a non-empty name, and then the list is not empty; it has temperature and
\* max_tokens exactly when the option is a number, with the option's value.
C22_BodyFields ==
  request.issued =>
    /\ request.method = "POST"
    /\ request.body.stream = FALSE
    /\ request.body.hasTools <=> HasNamedTool
    /\ request.body.hasTools => request.body.tools # <<>>
    /\ \A i \in 1..Len(request.body.tools) : request.body.tools[i].function.name # ""
    /\ request.body.hasTemperature <=> call.options.temperature.isNumber
    /\ request.body.hasTemperature => request.body.temperature = call.options.temperature.n
    /\ request.body.hasMaxTokens <=> call.options.maxTokens.isNumber
    /\ request.body.hasMaxTokens => request.body.max_tokens = call.options.maxTokens.n

\* C22's case: a request for a context whose only tool descriptor has no name,
\* with a temperature of 0 and no token limit
C22_Witness ==
  /\ request.issued
  /\ call.context.tools.present
  /\ ~HasNamedTool
  /\ ~request.body.hasTools
  /\ request.body.hasTemperature /\ request.body.temperature = 0
  /\ ~request.body.hasMaxTokens

\* ---------------------------------------------------------------- the bootstrap expiry counter
\* src/src/agents/bootstrap-files.ts

DEFAULT_BOOTSTRAP_EXPIRY == 10

\* raw: config?.agents?.defaults?.bootstrapExpiry as [isNumber, n], n an integer
\* (Math.floor leaves an integer as it is; every integer is finite)
resolveBootstrapExpiry(raw) ==
  IF raw.isNumber /\ raw.n >= 0 THEN raw.n ELSE DEFAULT_BOOTSTRAP_EXPIRY

\* What the body of the inner try does on one line: threw is the SyntaxError of
\* JSON.parse or the TypeError of reading .type of null; isUser is the test
\* record.type === "message" && record.message?.role === "user"
ExamineRecord(parsed) ==
  IF ~parsed.ok \/ parsed.val.t = "null" THEN [threw |-> TRUE, isUser |-> FALSE]
  ELSE [threw |-> FALSE,
        isUser |-> /\ Get(parsed.val, "type").found
                   /\ Get(parsed.val, "type").val = JStr(Txt(<<"message">>))
                   /\ Get(Get(parsed.val, "message").val, "role").found
                   /\ Get(Get(parsed.val, "message").val, "role").val = JStr(Txt(<<"user">>))]

ExamineLine(line) == ExamineRecord(JSONparse(line))

InnerCatchRethrows(r) == r

\* catch {} of the inner try: the line's error is dropped
InnerCatch(r) == [r EXCEPT !.threw = FALSE]

RECURSIVE CountFrom(_, _, _, _)
\* One line examined: count++ and the early return, or the next line
CountStep(lines, i, count, limit, r) ==
  IF r.threw THEN [count |-> count, scanned |-> i, threw |-> TRUE]
  ELSE IF r.isUser
  THEN IF count + 1 >= limit
       THEN [count |-> count + 1, scanned |-> i, threw |-> FALSE]
       ELSE CountFrom(lines, i + 1, count + 1, limit)
  ELSE CountFrom(lines, i + 1, count, limit)

\* for (const line of raw.split("\n")) from line i on; scanned is the number of
\* lines the loop has looked at when it returns
CountFrom(lines, i, count, limit) ==
  IF i > Len(lines) THEN [count |-> count, scanned |-> Len(lines), threw |-> FALSE]
  ELSE IF Trim(lines[i]) = <<>> THEN CountFrom(lines, i + 1, count, limit)
  ELSE CountStep(lines, i, count, limit, InnerCatch(ExamineLine(lines[i])))

\* catch { return 0 } of the outer try
OuterCatch(r) ==
  [count |-> IF r.threw THEN 0 ELSE r.count, scanned |-> r.scanned, raised |-> FALSE]

\* file: [readable, lines]; readable = FALSE is fs.readFile rejecting
countUserMessagesInSession(file, limit) ==
  IF ~file.readable THEN OuterCatch([count |-> 0, scanned |-> 0, threw |-> TRUE])
  ELSE OuterCatch(CountFrom(file.lines, 1, 0, limit))

\* The most lines of a drawn transcript
MaxLines == 3

\* {"type": type, "message": message}
RecordLine(type, message) ==
  JSONstringify(JObj(<<Member("type", JStr(Txt(<<type>>))), Member("message", message)>>))

RoleObj(role) == JObj(<<Member("role", JStr(Txt(<<role>>)))>>)

\* Transcript lines, and whether each is a user-message record: a user and an
\* assistant message, a blank and a whitespace line, text that is no JSON, the
\* JSON null, a record of another type, a message record whose message is null
LinePool ==
  << [text |-> RecordLine("message", RoleObj("user")), user |-> TRUE],
     [text |-> RecordLine("message", RoleObj("assistant")), user |-> FALSE],
     [text |-> <<>>, user |-> FALSE],
     [text |-> Txt(<<" ">>), user |-> FALSE],
     [text |-> Txt(<<"{", "oops">>), user |-> FALSE],
     [text |-> Txt(<<"null">>), user |-> FALSE],
     [text |-> RecordLine("session", RoleObj("user")), user |-> FALSE],
     [text |-> RecordLine("message", JNull), user |-> FALSE] >>

\* The configured bootstrapExpiry values: unset, negative, 0 and up
RawExpiryPool ==
  << NoNumber, Number(0 - 1), Number(0), Number(1), Number(2), Number(3) >>

CountInputs ==
  { [readable |-> TRUE, origin |-> [i \in 1..n |-> LinePool[f[i]]]] :
      n \in 1..MaxLines, f \in [1..MaxLines -> 1..Len(LinePool)] }
  \cup { [readable |-> FALSE, origin |-> <<>>] }

CountInit ==
  /\ TransportInit
  /\ phase = "input"
  /\ output = <<>>
  /\ \E file \in CountInputs : \E k \in 1..Len(RawExpiryPool) :
       input = [readable |-> file.readable,
                origin |-> file.origin,
                lines |-> [i \in 1..Len(file.origin) |-> file.origin[i].text],
                limit |-> resolveBootstrapExpiry(RawExpiryPool[k])]

\* countUserMessagesInSession applied to the drawn transcript and limit
Count ==
  /\ phase = "input"
  /\ output' = countUserMessagesInSession(input, input.limit)
  /\ phase' = "counted"
  /\ UNCHANGED <<input, caller, pc, signal, call, request, response, promise, stream, uuid>>

CountNext == Count

SpecCount == CountInit /\ [][CountNext]_vars

IsUserLine(l) == l.user

\* The user-message lines of the drawn transcript, as a number
UserLines == Len(SelectSeq(input.origin, IsUserLine))

\* The place of the k-th user-message line
UserLineAt(k) ==
  CHOOSE i \in 1..Len(input.origin) :
    /\ input.origin[i].user
    /\ Len(SelectSeq(SubSeq(input.origin, 1, i), IsUserLine)) = k

Min(a, b) == IF a <= b THEN a ELSE b

\* C23: the result is min(n, limit), never more than limit, and the scan stops
\* at the line that reaches the limit.
C23_CountIsMinOfUsersAndLimit ==
  (phase = "counted" /\ input.readable) =>
    /\ output.count = Min(UserLines, input.limit)
    /\ output.count <= input.limit
    /\ (input.limit >= 1 /\ UserLines >= input.limit)
         => output.scanned = UserLineAt(input.limit)

\* C24: the call never raises; a file that cannot be read counts 0; blank lines,
\* lines that are no JSON and records of another shape do not change the count,
\* which is that of the user-message lines alone, up to the limit (up to 1 for a
\* limit of 0).
C24_NeverRaisesSkipsMalformed ==
  phase = "counted" =>
    /\ ~output.raised
    /\ ~input.readable => output.count = 0
    /\ input.readable =>
         output.count = Min(UserLines, IF input.limit = 0 THEN 1 ELSE input.limit)

\* C24's case: a user message, a line that is no JSON, a user message: 2 counted
C24_Witness ==
  /\ phase = "counted"
  /\ input.readable
  /\ Len(input.origin) = 3
  /\ input.origin[1].user
  /\ input.origin[2].text = Txt(<<"{", "oops">>)
  /\ input.origin[3].user
  /\ input.limit = 3
  /\ output.count = 2
  /\ ~output.raised

\* ---------------------------------------------------------------- tool definitions
\* src/src/agents/pi-tool-definition-adapter.ts, pi-embedded-runner/tool-split.ts

\* normalizeToolName of tool-policy: trimmed, lower-cased, aliases resolved; on
\* the names drawn here
normalizeToolName(name) ==
  CASE name = "Exec" -> "exec"
    [] name = "bash" -> "exec"
    [] name = " read " -> "read"
    [] name = "Web_Fetch" -> "web_fetch"
    [] OTHER -> name

COMPACT_EXCLUDED_TOOLS == {"exec", "browser", "web_search", "web_fetch", "process"}

\* A parameter schema: its required list and the names of its properties
Schema(required, properties) ==
  [type |-> "object", required |-> required, properties |-> properties]

\* COMPACT_TOOL_SCHEMAS[name]; found = FALSE is undefined
COMPACT_TOOL_SCHEMAS(name) ==
  CASE name = "read" ->
         [found |-> TRUE, description |-> "Read file contents.",
          parameters |-> Schema(<<>>, <<"path", "offset", "limit">>)]
    [] name = "write" ->
         [found |-> TRUE, description |-> "Write content to file.",
          parameters |-> Schema(<<"content">>, <<"path", "content">>)]
    [] name = "edit" ->
         [found |-> TRUE, description |-> "Edit file by replacing text.",
          parameters |-> Schema(<<>>, <<"path", "oldText", "newText">>)]
    [] name = "message" ->
         [found |-> TRUE,
          description |-> "Send iMessage. Actions: send, react, reply, sendAttachment.",
          parameters |-> Schema(<<"action">>,
                                <<"action", "target", "message", "media", "filename">>)]
    [] name = "memory_search" ->
         [found |-> TRUE, description |-> "Search memory files.",
          parameters |-> Schema(<<"query">>, <<"query">>)]
    [] name = "memory_get" ->
         [found |-> TRUE, description |-> "Read memory file snippet.",
          parameters |-> Schema(<<"path">>, <<"path", "from", "lines">>)]
    [] name = "sessions_spawn" ->
         [found |-> TRUE, description |-> "Spawn a sub-agent session for complex tasks.",
          parameters |-> Schema(<<"task">>, <<"task", "agentId">>)]
    [] name = "subagents" ->
         [found |-> TRUE, description |-> "List, steer, or kill sub-agent runs.",
          parameters |-> Schema(<<"action">>, <<"action", "sessionId">>)]
    [] name = "cron" ->
         [found |-> TRUE, description |-> "Manage cron jobs and reminders.",
          parameters |-> Schema(<<"action">>, <<"action", "schedule", "systemEvent">>)]
    [] OTHER -> [found |-> FALSE, description |-> "", parameters |-> Schema(<<>>, <<>>)]

\* An AgentTool: hasDescription = FALSE is a tool without a description
Tool(name, hasDescription) ==
  [name |-> name,
   hasDescription |-> hasDescription,
   description |-> "full description of " \o name,
   parameters |-> Schema(<<"full">>, <<"full", name>>)]

CompactOfDefaultTrue(options) == IF options.present /\ options.hasCompact THEN options.compact ELSE TRUE

\* const compact = options?.compact ?? false; options: [present, hasCompact, compact]
CompactOf(options) == options.present /\ options.hasCompact /\ options.compact

CompactExcludedByRawName(tool) == tool.name \in COMPACT_EXCLUDED_TOOLS

\* COMPACT_EXCLUDED_TOOLS.has(normalizeToolName(tool.name))
CompactExcluded(tool) == normalizeToolName(tool.name) \in COMPACT_EXCLUDED_TOOLS

RECURSIVE FilterTools(_, _)
\* tools.filter(...) in compact mode, tools otherwise
FilterTools(tools, compact) ==
  IF tools = <<>> THEN <<>>
  ELSE (IF compact /\ CompactExcluded(Head(tools)) THEN <<>> ELSE <<Head(tools)>>)
       \o FilterTools(Tail(tools), compact)

\* const name = tool.name || "tool"
DefinitionName(tool) == IF tool.name = "" THEN "tool" ELSE tool.name

\* The definition of one tool, given compactSchema
DefinitionWith(tool, compactSchema) ==
  [name |-> DefinitionName(tool),
   description |-> IF compactSchema.found THEN compactSchema.description
                   ELSE IF tool.hasDescription THEN tool.description ELSE "",
   parameters |-> IF compactSchema.found THEN compactSchema.parameters ELSE tool.parameters]

\* The callback of filteredTools.map
DefinitionOf(tool, compact) ==
  DefinitionWith(tool,
                 IF compact THEN COMPACT_TOOL_SCHEMAS(normalizeToolName(DefinitionName(tool)))
                 ELSE COMPACT_TOOL_SCHEMAS(""))

MapDefinitions(filteredTools, compact) ==
  [i \in 1..Len(filteredTools) |-> DefinitionOf(filteredTools[i], compact)]

toToolDefinitions(tools, options) ==
  MapDefinitions(FilterTools(tools, CompactOf(options)), CompactOf(options))

\* splitSdkTools: compact is [has, value]; toolOpts is {compact} when compact is
\* truthy and undefined otherwise
splitSdkTools(tools, compact) ==
  [builtInTools |-> <<>>,
   customTools |-> toToolDefinitions(tools,
                     IF compact.has /\ compact.value
                     THEN [present |-> TRUE, hasCompact |-> TRUE, compact |-> TRUE]
                     ELSE [present |-> FALSE, hasCompact |-> FALSE, compact |-> FALSE])]

\* The most tools of a drawn list
MaxTools == 2

\* The names of the drawn tools: the excluded and the minimal-schema names, names
\* that normalize to them, another name and the empty name
ToolNamePool ==
  << "exec", "browser", "web_search", "web_fetch", "process",
     "read", "write", "edit", "message", "memory_search", "memory_get",
     "sessions_spawn", "subagents", "cron",
     "Exec", "bash", " read ", "Web_Fetch", "canvas", "" >>

\* The options of toToolDefinitions: undefined, {}, {compact: false}, {compact: true}
ToolOptionsPool ==
  << [present |-> FALSE, hasCompact |-> FALSE, compact |-> FALSE],
     [present |-> TRUE, hasCompact |-> FALSE, compact |-> FALSE],
     [present |-> TRUE, hasCompact |-> TRUE, compact |-> FALSE],
     [present |-> TRUE, hasCompact |-> TRUE, compact |-> TRUE] >>

ToolsInit ==
  /\ TransportInit
  /\ phase = "input"
  /\ output = <<>>
  /\ \E n \in 0..MaxTools : \E f \in [1..n -> 1..Len(ToolNamePool)] :
       \E k \in 1..Len(ToolOptionsPool) : \E described \in BOOLEAN :
         input = [tools |-> [i \in 1..n |-> Tool(ToolNamePool[f[i]], described \/ i = 1)],
                  options |-> ToolOptionsPool[k]]

\* toToolDefinitions(tools, options)
ToDefinitions ==
  /\ phase = "input"
  /\ output' = toToolDefinitions(input.tools, input.options)
  /\ phase' = "defined"
  /\ UNCHANGED <<input, caller, pc, signal, call, request, response, promise, stream, uuid>>

\* splitSdkTools({tools, compact}).customTools, compact as the options give it
SplitSdk ==
  /\ phase = "input"
  /\ output' = splitSdkTools(input.tools,
                             [has |-> input.options.present /\ input.options.hasCompact,
                              value |-> input.options.compact]).customTools
  /\ phase' = "split"
  /\ UNCHANGED <<input, caller, pc, signal, call, request, response, promise, stream, uuid>>

ToolsNext == ToDefinitions \/ SplitSdk

SpecTools == ToolsInit /\ [][ToolsNext]_vars

\* The definitions are there, by either way
Defined == phase \in {"defined", "split"}

CompactSet == input.options.present /\ input.options.hasCompact /\ input.options.compact

\* The description and parameters the tool itself carries
OwnSchema(def, tool) ==
  /\ def.description = (IF tool.hasDescription THEN tool.description ELSE "")
  /\ def.parameters = tool.parameters

\* C25: without compact, one definition per tool, in input order, with the tool's
\* own description and parameters, whatever its name.
C25_NoCompactKeepsEverything ==
  (Defined /\ ~CompactSet) =>
    /\ Len(output) = Len(input.tools)
    /\ \A i \in 1..Len(input.tools) :
         i <= Len(output) =>
           /\ output[i].name = (IF input.tools[i].name = "" THEN "tool" ELSE input.tools[i].name)
           /\ OwnSchema(output[i], input.tools[i])

\* C25's case: {compact: false} with an excluded tool and a minimal-schema tool
C25_Witness ==
  /\ phase = "split"
  /\ input.options.hasCompact /\ ~input.options.compact
  /\ Len(input.tools) = 2
  /\ input.tools[1].name = "exec"
  /\ input.tools[2].name = "read"
  /\ Len(output) = 2
  /\ output[2].description = "full description of read"

ExcludedNames == {"exec", "browser", "web_search", "web_fetch", "process"}

MinimalNames ==
  {"read", "write", "edit", "message", "memory_search", "memory_get",
   "sessions_spawn", "subagents", "cron"}

NotExcluded(tool) == normalizeToolName(tool.name) \notin ExcludedNames

\* The tools compact mode keeps
Kept == SelectSeq(input.tools, NotExcluded)

\* C26: with compact, the definitions are those of the tools whose normalized
\* name is not excluded, in input order; one whose normalized name has a minimal
\* schema carries that description and those parameters, not its own; any other
\* carries its own.
C26_CompactFiltersAndSubstitutes ==
  (Defined /\ CompactSet) =>
    /\ Len(output) = Len(Kept)
    /\ \A i \in 1..Len(output) : normalizeToolName(output[i].name) \notin ExcludedNames
    /\ \A i \in 1..Len(Kept) :
         i <= Len(output) =>
           /\ output[i].name = (IF Kept[i].name = "" THEN "tool" ELSE Kept[i].name)
           /\ IF normalizeToolName(Kept[i].name) \in MinimalNames
              THEN /\ output[i].description
                        = COMPACT_TOOL_SCHEMAS(normalizeToolName(Kept[i].name)).description
                   /\ output[i].parameters
                        = COMPACT_TOOL_SCHEMAS(normalizeToolName(Kept[i].name)).parameters
                   /\ output[i].description # Kept[i].description
                   /\ output[i].parameters # Kept[i].parameters
              ELSE OwnSchema(output[i], Kept[i])

\* C26's case: a tool named Exec dropped, a tool named " read " given the minimal
\* schema of read
C26_Witness ==
  /\ phase = "defined"
  /\ CompactSet
  /\ Len(input.tools) = 2
  /\ input.tools[1].name = "Exec"
  /\ input.tools[2].name = " read "
  /\ Len(output) = 1
  /\ output[1].name = " read "
  /\ output[1].description = "Read file contents."

\* ---------------------------------------------------------------- execute wrappers
\* src/src/agents/pi-tool-definition-adapter.ts, the execute of a definition

\* A thrown value: an Error (name, message) or another value (String(err) = text);
\* hasName is "name" in err for an object
Thrown(instanceOfError, hasName, name, message, text) ==
  [instanceOfError |-> instanceOfError, hasName |-> hasName, name |-> name,
   message |-> message, text |-> text]

NoThrown == Thrown(FALSE, FALSE, "", <<>>, <<>>)

\* new Error(message)
NewError(message) == Thrown(TRUE, TRUE, "Error", message, <<>>)

\* String(err)
StringOfThrown(err) ==
  IF err.instanceOfError
  THEN IF err.message = <<>> THEN <<Tk(err.name)>>
       ELSE <<Tk(err.name), Tk(": ")>> \o err.message
  ELSE err.text

\* describeToolExecutionError(err).message
describeToolExecutionError(err) ==
  IF err.instanceOfError
  THEN IF Trim(err.message) # <<>> THEN err.message ELSE StringOfThrown(err)
  ELSE StringOfThrown(err)

\* The name the catch block reads from the thrown value
ThrownName(err) == IF err.hasName THEN err.name ELSE ""

\* Parameters: plain is isPlainObject(params)
Params(plain, v) == [plain |-> plain, v |-> v]

\* isPlainObject(params) ? params : {}
ParamsRecord(params) == IF params.plain THEN params ELSE Params(TRUE, "{}")

\* The outcome of runBeforeToolCallHook: blocked with a reason, or the parameters
\* to run with
HookOutcome(blocked, reason, params) ==
  [blocked |-> blocked, reason |-> reason, params |-> params]

\* A result of execute: jsonResult({status, tool, error}) or what the tool returned
ToolResult(status, tool, error) == [status |-> status, tool |-> tool, error |-> error]

NoResult == ToolResult("", "", <<>>)

\* What a call has done so far: signal.aborted, the tool.execute invocations and
\* their parameters, the onClientToolCall notifications, what the tool threw,
\* signal.aborted as the catch block read it, and how the promise settled
Effects(aborted, executed, notified, threw, abortedAtCatch, result, error) ==
  [aborted |-> aborted, executed |-> executed, notified |-> notified, threw |-> threw,
   abortedAtCatch |-> abortedAtCatch, result |-> result, error |-> error]

\* Control enters the catch block: what the tool threw, if it did, and
\* signal.aborted at that moment
Caught(out, threw) == [out EXCEPT !.threw = threw, !.abortedAtCatch = out.aborted]

\* The state after the catch block took err, without the trailing hook: rethrown
\* when the signal is aborted or the error is named AbortError, else the error result
CatchIgnoresSignal(out, in, err) ==
  IF ThrownName(err) = "AbortError"
  THEN [phase |-> "rejected", out |-> [out EXCEPT !.error = err]]
  ELSE [phase |-> IF in.afterHook = "none" THEN "resolved" ELSE "afterError",
        out |-> [out EXCEPT !.result =
                   ToolResult("error", normalizeToolName(DefinitionName(in.tool)),
                              describeToolExecutionError(err))]]

CatchOutcome(out, in, err) ==
  IF out.aborted \/ ThrownName(err) = "AbortError"
  THEN [phase |-> "rejected",
        out |-> [out EXCEPT !.error = err]]
  ELSE [phase |-> IF in.afterHook = "none" THEN "resolved" ELSE "afterError",
        out |-> [out EXCEPT !.result =
                   ToolResult("error", normalizeToolName(DefinitionName(in.tool)),
                              describeToolExecutionError(err))]]

HookBlockedNever(outcome) == FALSE

\* if (hookOutcome.blocked)
HookBlocked(outcome) == outcome.blocked

\* The parameters a call is made with
ParamsPool == << Params(TRUE, "original"), Params(FALSE, "text") >>

\* What the before_tool_call hook answers
HookOutcomePool ==
  << HookOutcome(FALSE, <<>>, Params(TRUE, "original")),
     HookOutcome(FALSE, <<>>, Params(TRUE, "adjusted")),
     HookOutcome(FALSE, <<>>, Params(FALSE, "text")),
     HookOutcome(TRUE, Txt(<<"denied">>), Params(TRUE, "original")) >>

\* What tool.execute throws
ThrownPool ==
  << NewError(Txt(<<"boom">>)),
     NewError(<<>>),
     NewError(Txt(<<" ">>)),
     Thrown(TRUE, TRUE, "AbortError", Txt(<<"This operation was aborted">>), <<>>),
     Thrown(FALSE, TRUE, "AbortError", <<>>, Txt(<<"[object Object]">>)),
     Thrown(FALSE, FALSE, "", <<>>, Txt(<<"oops">>)) >>

\* Names of the tools called
CalledNamePool == <<"read", "bash", "">>

ExecuteInit ==
  /\ TransportInit
  /\ phase = "called"
  /\ output = Effects(FALSE, <<>>, <<>>, NoThrown, FALSE, NoResult, NoThrown)
  /\ \E n \in 1..Len(CalledNamePool), p \in 1..Len(ParamsPool),
        h \in 1..Len(HookOutcomePool), wrapped \in BOOLEAN, hasSignal \in BOOLEAN,
        client \in BOOLEAN, handler \in BOOLEAN,
        afterHook \in {"none", "resolves", "rejects"} :
       input = [tool |-> Tool(CalledNamePool[n], TRUE),
                client |-> client,
                beforeHookWrapped |-> wrapped /\ ~client,
                params |-> ParamsPool[p],
                hookOutcome |-> HookOutcomePool[h],
                hasSignal |-> hasSignal,
                onClientToolCall |-> handler /\ client,
                afterHook |-> IF client THEN "none" ELSE afterHook]

\* The invocation tool.execute(toolCallId, executeParams, signal, onUpdate)
Invoke(out, executeParams) ==
  [out EXCEPT !.executed = Append(out.executed, executeParams)]

\* execute of toToolDefinitions up to its first await
ExecuteStart ==
  /\ phase = "called"
  /\ ~input.client
  /\ IF input.beforeHookWrapped
     THEN /\ phase' = "execute"
          /\ output' = Invoke(output, input.params)
     ELSE /\ phase' = "hook"
          /\ output' = output
  /\ UNCHANGED <<input, caller, pc, signal, call, request, response, promise, stream, uuid>>

\* runBeforeToolCallHook resolved
HookResolve ==
  /\ phase = "hook"
  /\ IF HookBlocked(input.hookOutcome)
     THEN /\ phase' = CatchOutcome(Caught(output, NoThrown), input,
                                   NewError(input.hookOutcome.reason)).phase
          /\ output' = CatchOutcome(Caught(output, NoThrown), input,
                                    NewError(input.hookOutcome.reason)).out
     ELSE /\ phase' = "execute"
          /\ output' = Invoke(output, input.hookOutcome.params)
  /\ UNCHANGED <<input, caller, pc, signal, call, request, response, promise, stream, uuid>>

\* tool.execute resolved
ToolResolve ==
  /\ phase = "execute"
  /\ phase' = IF input.afterHook = "none" THEN "resolved" ELSE "after"
  /\ output' = [output EXCEPT !.result = ToolResult("ok", input.tool.name, <<>>)]
  /\ UNCHANGED <<input, caller, pc, signal, call, request, response, promise, stream, uuid>>

\* tool.execute rejected
ToolReject ==
  /\ phase = "execute"
  /\ \E i \in 1..Len(ThrownPool) :
       /\ phase' = CatchOutcome(Caught(output, ThrownPool[i]), input,
                                ThrownPool[i]).phase
       /\ output' = CatchOutcome(Caught(output, ThrownPool[i]), input,
                                 ThrownPool[i]).out
  /\ UNCHANGED <<input, caller, pc, signal, call, request, response, promise, stream, uuid>>

\* runAfterToolCall settled, either way: return result / return errorResult
AfterHookSettle ==
  /\ phase \in {"after", "afterError"}
  /\ phase' = "resolved"
  /\ UNCHANGED <<input, output, caller, pc, signal, call, request, response, promise, stream,
                 uuid>>

\* The caller aborts the signal it passed
SignalAbort ==
  /\ input.hasSignal
  /\ ~output.aborted
  /\ phase \notin {"resolved", "rejected"}
  /\ output' = [output EXCEPT !.aborted = TRUE]
  /\ UNCHANGED <<phase, input, caller, pc, signal, call, request, response, promise, stream,
                 uuid>>

\* execute of toClientToolDefinitions up to its await
ClientStart ==
  /\ phase = "called"
  /\ input.client
  /\ phase' = "clientHook"
  /\ UNCHANGED <<input, output, caller, pc, signal, call, request, response, promise, stream,
                 uuid>>

\* runBeforeToolCallHook resolved in the client wrapper
ClientHookResolve ==
  /\ phase = "clientHook"
  /\ IF HookBlocked(input.hookOutcome)
     THEN /\ phase' = "rejected"
          /\ output' = [output EXCEPT !.error = NewError(input.hookOutcome.reason)]
     ELSE /\ phase' = "resolved"
          /\ output' =
               [output EXCEPT
                  !.notified = IF input.onClientToolCall
                               THEN Append(@, ParamsRecord(input.hookOutcome.params))
                               ELSE @,
                  !.result = ToolResult("pending", input.tool.name, <<>>)]
  /\ UNCHANGED <<input, caller, pc, signal, call, request, response, promise, stream, uuid>>

ExecuteNext ==
  \/ ExecuteStart
  \/ HookResolve
  \/ ToolResolve
  \/ ToolReject
  \/ AfterHookSettle
  \/ SignalAbort
  \/ ClientStart
  \/ ClientHookResolve

SpecExecute == ExecuteInit /\ [][ExecuteNext]_vars

Settled == phase \in {"resolved", "rejected"}

ToolThrew == output.threw # NoThrown

\* The thrown value is a cancellation for the catch block
Cancellation == output.abortedAtCatch \/ ThrownName(output.threw) = "AbortError"

\* The error result of a failure names the tool and carries the message
ErrorResultOf(err) ==
  /\ output.result.status = "error"
  /\ output.result.tool = normalizeToolName(DefinitionName(input.tool))
  /\ (err.instanceOfError /\ Trim(err.message) # <<>>) => output.result.error = err.message
  /\ ~err.instanceOfError => output.result.error = err.text
  /\ output.result.error # <<>>

\* C28: a call whose tool threw rejects only for a cancellation: with the signal
\* not aborted and an error not named AbortError it resolves with the error result
\* naming the tool and the message; with the signal aborted or an AbortError it
\* rejects with the very error thrown and has no result.
C28_OnlyCancellationRejects ==
  (ToolThrew /\ ~input.client) =>
    /\ phase # "called"
    /\ (phase = "rejected") <=> Cancellation
    /\ Cancellation => (output.error = output.threw /\ output.result = NoResult)
    /\ ~Cancellation =>
         /\ phase \in {"afterError", "resolved"}
         /\ output.error = NoThrown
         /\ ErrorResultOf(output.threw)

\* C28's case: both outcomes happen, here the error result of a plain failure of
\* the tool named bash, aborted only after the catch block ran
C28_Witness ==
  /\ phase = "resolved"
  /\ output.threw = NewError(Txt(<<"boom">>))
  /\ input.tool.name = "bash"
  /\ output.aborted
  /\ output.result = ToolResult("error", "exec", Txt(<<"boom">>))

\* C28's other case: a failure under an aborted signal is rethrown
C28_WitnessRethrown ==
  /\ phase = "rejected"
  /\ output.threw = NewError(Txt(<<"boom">>))
  /\ output.abortedAtCatch
  /\ output.error = output.threw

\* The hook blocked a call the wrapper itself ran the hook for
Blocked == input.hookOutcome.blocked /\ ~input.beforeHookWrapped

BlockError == NewError(input.hookOutcome.reason)

\* C29 as stated: a blocked call never reaches tool.execute; the wrapper of
\* toToolDefinitions resolves with the error result carrying the reason, the one
\* of toClientToolDefinitions rejects without a notification; an unblocked call
\* runs the tool with the parameters of the hook.
C29_BlockedResolvesWithReason ==
  /\ Blocked => output.executed = <<>>
  /\ (Blocked /\ Settled /\ ~input.client) =>
       /\ phase = "resolved"
       /\ output.result.status = "error"
       /\ output.result.error = input.hookOutcome.reason
  /\ (Blocked /\ Settled /\ input.client) =>
       /\ phase = "rejected"
       /\ output.notified = <<>>
  /\ (~input.hookOutcome.blocked /\ ~input.beforeHookWrapped /\ output.executed # <<>>) =>
       output.executed = <<input.hookOutcome.params>>

\* C29 amended: the same, but a block reported while the signal is aborted is
\* rethrown: the wrapper of toToolDefinitions then rejects with the block error.
C29_BlockedNeverExecutes ==
  /\ Blocked => output.executed = <<>>
  /\ (Blocked /\ Settled /\ ~input.client) =>
       IF output.abortedAtCatch
       THEN /\ phase = "rejected"
            /\ output.error = BlockError
            /\ output.result = NoResult
       ELSE /\ phase = "resolved"
            /\ output.result.status = "error"
            /\ output.result.error = input.hookOutcome.reason
  /\ (Blocked /\ Settled /\ input.client) =>
       /\ phase = "rejected"
       /\ output.error = BlockError
       /\ output.notified = <<>>
  /\ (~input.hookOutcome.blocked /\ ~input.beforeHookWrapped /\ output.executed # <<>>) =>
       output.executed = <<input.hookOutcome.params>>

\* C29's case: a block under an aborted signal, rejected with the block error
C29_Witness ==
  /\ Blocked /\ ~input.client
  /\ phase = "rejected"
  /\ output.abortedAtCatch
  /\ output.error = BlockError
  /\ output.executed = <<>>

\* ---------------------------------------------------------------- doctor
\* src/src/commands/doctor.ts

\* obj[key] = val: in place for a key the object has, appended otherwise
RECURSIVE SetMembers(_, _, _)
SetMembers(members, key, val) ==
  IF members = <<>> THEN <<Member(key, val)>>
  ELSE IF Head(members).k = <<Tk(key)>> THEN <<Member(key, val)>> \o Tail(members)
  ELSE <<Head(members)>> \o SetMembers(Tail(members), key, val)

SetProp(obj, key, val) == JObj(SetMembers(obj.v, key, val))

HasOtherKey(m) == m.k # <<Tk("allowFrom")>>

\* delete obj[key]
DeleteProp(obj, key) ==
  JObj(SelectSeq(obj.v, LAMBDA m : m.k # <<Tk(key)>>))

\* typeof v === "object" of a truthy v
IsObject(found) == found.found /\ found.val.t = "obj"

\* The whatsapp object the migration writes to: raw.whatsapp when it is an
\* object, a new object otherwise
WhatsappOf(raw) == IF IsObject(Get(raw, "whatsapp")) THEN Get(raw, "whatsapp").val ELSE EmptyObj

\* The migration once routing.allowFrom is known to be there: whatsapp.allowFrom
\* set unless it is set already, routing.allowFrom deleted, an empty routing
\* deleted, raw.whatsapp assigned
MoveAllowFrom(raw, routing, allowFrom, whatsapp) ==
  [next |->
     SetProp(IF DeleteProp(routing, "allowFrom").v = <<>>
             THEN DeleteProp(raw, "routing")
             ELSE SetProp(raw, "routing", DeleteProp(routing, "allowFrom")),
             "whatsapp",
             IF Get(whatsapp, "allowFrom").found THEN whatsapp
             ELSE SetProp(whatsapp, "allowFrom", allowFrom)),
   changes |->
     IF Get(whatsapp, "allowFrom").found
     THEN <<"Removed routing.allowFrom (whatsapp.allowFrom already set).">>
     ELSE <<"Moved routing.allowFrom -> whatsapp.allowFrom.">>]

MigrationApplyKeepsRouting(raw) ==
  IF ~IsObject(Get(raw, "routing")) THEN [next |-> raw, changes |-> <<>>]
  ELSE IF ~Get(Get(raw, "routing").val, "allowFrom").found
  THEN [next |-> raw, changes |-> <<>>]
  ELSE [next |-> SetProp(raw, "whatsapp",
                         SetProp(WhatsappOf(raw), "allowFrom",
                                 Get(Get(raw, "routing").val, "allowFrom").val)),
        changes |-> <<"Moved routing.allowFrom -> whatsapp.allowFrom.">>]

\* LEGACY_MIGRATIONS[0].apply(raw, changes): the object and the changes after it
MigrationApply(raw) ==
  IF ~IsObject(Get(raw, "routing")) THEN [next |-> raw, changes |-> <<>>]
  ELSE IF ~Get(Get(raw, "routing").val, "allowFrom").found
  THEN [next |-> raw, changes |-> <<>>]
  ELSE MoveAllowFrom(raw, Get(raw, "routing").val,
                     Get(Get(raw, "routing").val, "allowFrom").val, WhatsappOf(raw))

\* validateConfigObject(next): ok with the object as the config, or not ok
validateConfigObject(next, ok) == [ok |-> ok, config |-> next]

\* structuredClone(raw): an equal object that is not raw itself
structuredClone(raw) == [object |-> raw, fresh |-> TRUE]

\* applyLegacyMigrations(raw) once the migrations ran on next: parsed is the
\* object that was passed, as it is after the call (next itself unless next is a
\* fresh object)
MigrationsResult(raw, fresh, applied, ok) ==
  IF applied.changes = <<>>
  THEN [config |-> JNull, changes |-> <<>>, parsed |-> raw]
  ELSE IF ~validateConfigObject(applied.next, ok).ok
  THEN [config |-> JNull,
        changes |-> Append(applied.changes,
          "Migration applied, but config still invalid; fix remaining issues manually."),
        parsed |-> IF fresh THEN raw ELSE applied.next]
  ELSE [config |-> validateConfigObject(applied.next, ok).config,
        changes |-> applied.changes,
        parsed |-> IF fresh THEN raw ELSE applied.next]

\* applyLegacyMigrations(raw), the validator answering ok
applyLegacyMigrations(raw, ok) ==
  IF raw.t # "obj" THEN [config |-> JNull, changes |-> <<>>, parsed |-> raw]
  ELSE MigrationsResult(raw, structuredClone(raw).fresh,
                        MigrationApply(structuredClone(raw).object), ok)

\* applyWizardMetadata(cfg, {command: "doctor", mode})
applyWizardMetadata(cfg) ==
  SetProp(cfg, "wizard", JObj(<<Member("lastRunCommand", JStr(Txt(<<"doctor">>)))>>))

\* A snapshot of the config file
Snapshot(parsed, valid, legacyIssues) ==
  [parsed |-> parsed, valid |-> valid,
   config |-> IF valid THEN parsed ELSE EmptyObj,
   legacyIssues |-> legacyIssues]

AllowA == JStr(Txt(<<"+15555550123">>))

AllowB == JStr(Txt(<<"+15555550199">>))

Other == Member("groupChat", JStr(Txt(<<"mention">>)))

\* The routing members of a drawn config; absent is no routing key
RoutingPool ==
  << [has |-> FALSE, val |-> JNull],
     [has |-> TRUE, val |-> JStr(Txt(<<"legacy">>))],
     [has |-> TRUE, val |-> JObj(<<Member("allowFrom", AllowA)>>)],
     [has |-> TRUE, val |-> JObj(<<Member("allowFrom", JNull)>>)],
     [has |-> TRUE, val |-> JObj(<<Member("allowFrom", AllowA), Other>>)],
     [has |-> TRUE, val |-> JObj(<<Other, Member("allowFrom", AllowA)>>)],
     [has |-> TRUE, val |-> JObj(<<Other>>)] >>

\* The whatsapp members of a drawn config
WhatsappPool ==
  << [has |-> FALSE, val |-> JNull],
     [has |-> TRUE, val |-> JNull],
     [has |-> TRUE, val |-> JStr(Txt(<<"on">>))],
     [has |-> TRUE, val |-> EmptyObj],
     [has |-> TRUE, val |-> JObj(<<Member("allowFrom", AllowB)>>)],
     [has |-> TRUE, val |-> JObj(<<Member("allowFrom", JNull)>>)],
     [has |-> TRUE, val |-> JObj(<<Other, Member("allowFrom", AllowB)>>)],
     [has |-> TRUE, val |-> JObj(<<Other>>)] >>

\* A parsed config file with the drawn members, in the order given
ParsedConfig(routing, whatsapp, first, agent) ==
  JObj((IF agent THEN <<Member("agent", EmptyObj)>> ELSE <<>>)
       \o (IF first /\ whatsapp.has THEN <<Member("whatsapp", whatsapp.val)>> ELSE <<>>)
       \o (IF routing.has THEN <<Member("routing", routing.val)>> ELSE <<>>)
       \o (IF ~first /\ whatsapp.has THEN <<Member("whatsapp", whatsapp.val)>> ELSE <<>>))

\* What a run of the doctor has done: cfg, snapshot.parsed as it is now, whether
\* the migration ran and what it returned, the notes, the writeConfigFile calls
Doctor(cfg, parsed, applied, migrated, changes, restarts, writes) ==
  [cfg |-> cfg, parsed |-> parsed, applied |-> applied, migrated |-> migrated,
   changes |-> changes, restarts |-> restarts, writes |-> writes]

DoctorInit ==
  /\ TransportInit
  /\ phase = "start"
  /\ \E r \in 1..Len(RoutingPool), w \in 1..Len(WhatsappPool),
        first \in BOOLEAN, agent \in BOOLEAN, valid \in BOOLEAN, legacyIssues \in 0..1 :
       \/ input = Snapshot(ParsedConfig(RoutingPool[r], WhatsappPool[w], first, agent),
                           valid, legacyIssues)
       \/ input = Snapshot(JNull, FALSE, legacyIssues)
  /\ output = Doctor(EmptyObj, input.parsed, FALSE, JNull, <<>>, 0, <<>>)

\* const snapshot = await readConfigFileSnapshot(); let cfg = ...
ReadSnapshot ==
  /\ phase = "start"
  /\ output' = [output EXCEPT !.cfg = IF input.valid THEN input.config ELSE EmptyObj]
  /\ phase' = IF input.legacyIssues > 0 THEN "confirmMigrate" ELSE "health"
  /\ UNCHANGED <<input, caller, pc, signal, call, request, response, promise, stream, uuid>>

\* The answer to "Migrate legacy config entries now?" and what follows it
ConfirmMigrate ==
  /\ phase = "confirmMigrate"
  /\ \E migrate \in BOOLEAN, ok \in BOOLEAN :
       output' =
         IF migrate
         THEN [output EXCEPT
                 !.applied = TRUE,
                 !.parsed = applyLegacyMigrations(output.parsed, ok).parsed,
                 !.migrated = applyLegacyMigrations(output.parsed, ok).config,
                 !.changes = applyLegacyMigrations(output.parsed, ok).changes,
                 !.cfg = IF applyLegacyMigrations(output.parsed, ok).config # JNull
                         THEN applyLegacyMigrations(output.parsed, ok).config
                         ELSE @]
         ELSE output
  /\ phase' = "health"
  /\ UNCHANGED <<input, caller, pc, signal, call, request, response, promise, stream, uuid>>

\* The skills note and the first healthCommand
Health ==
  /\ phase = "health"
  /\ \E healthOk \in BOOLEAN : phase' = IF healthOk THEN "write" ELSE "gateway"
  /\ UNCHANGED <<input, output, caller, pc, signal, call, request, response, promise, stream,
                 uuid>>

\* The gateway daemon: not loaded, or the answer to "Restart gateway daemon now?"
Gateway ==
  /\ phase = "gateway"
  /\ \E loaded \in BOOLEAN, restart \in BOOLEAN :
       output' = IF loaded /\ restart THEN [output EXCEPT !.restarts = @ + 1] ELSE output
  /\ phase' = "write"
  /\ UNCHANGED <<input, caller, pc, signal, call, request, response, promise, stream, uuid>>

\* cfg = applyWizardMetadata(cfg, ...); await writeConfigFile(cfg)
WriteConfig ==
  /\ phase = "write"
  /\ output' = [output EXCEPT !.cfg = applyWizardMetadata(@),
                              !.writes = Append(@, applyWizardMetadata(output.cfg))]
  /\ phase' = "done"
  /\ UNCHANGED <<input, caller, pc, signal, call, request, response, promise, stream, uuid>>

DoctorNext == ReadSnapshot \/ ConfirmMigrate \/ Health \/ Gateway \/ WriteConfig

SpecDoctor == DoctorInit /\ [][DoctorNext]_vars

\* The config has routing.allowFrom
HasRoutingAllowFrom(cfg) ==
  /\ IsObject(Get(cfg, "routing"))
  /\ Get(Get(cfg, "routing").val, "allowFrom").found

\* whatsapp.allowFrom of a config, found = FALSE when there is none
WhatsappAllowFrom(cfg) ==
  IF IsObject(Get(cfg, "whatsapp")) THEN Get(Get(cfg, "whatsapp").val, "allowFrom")
  ELSE [found |-> FALSE, val |-> JNull]

\* What the claim says of the config the migration made of old
MigratedFrom(old, new) ==
  /\ ~HasRoutingAllowFrom(new)
  /\ Get(new, "routing").found
       <=> SelectSeq(Get(old, "routing").val.v, HasOtherKey) # <<>>
  /\ Get(new, "routing").found =>
       Get(new, "routing").val.v = SelectSeq(Get(old, "routing").val.v, HasOtherKey)
  /\ WhatsappAllowFrom(new).found
  /\ WhatsappAllowFrom(new).val
       = (IF WhatsappAllowFrom(old).found THEN WhatsappAllowFrom(old).val
          ELSE Get(Get(old, "routing").val, "allowFrom").val)
  /\ applyLegacyMigrations(new, TRUE).changes = <<>>
  /\ MigrationApply(new).next = new

\* C27: once the migration ran on a config with routing.allowFrom, the config it
\* returned has no routing.allowFrom, no routing left empty, whatsapp.allowFrom
\* as it was set or else the old routing.allowFrom, and is a fixed point of the
\* migration; snapshot.parsed is as it was read; and the run writes the config
\* file once, at its end, with that config.
C27_MigrationMovesAllowFrom ==
  /\ output.parsed = input.parsed
  /\ Len(output.writes) = (IF phase = "done" THEN 1 ELSE 0)
  /\ (output.applied /\ HasRoutingAllowFrom(input.parsed)) =>
       /\ output.changes # <<>>
       /\ output.migrated # JNull =>
            /\ MigratedFrom(input.parsed, output.migrated)
            /\ phase = "done" => /\ MigratedFrom(input.parsed, output.writes[1])
                                 /\ DeleteProp(output.writes[1], "wizard") = output.migrated

\* C27's case: a routing that held only allowFrom, moved beside the other members
\* of whatsapp, and written
C27_Witness ==
  /\ phase = "done"
  /\ output.applied
  /\ Get(input.parsed, "routing").val = JObj(<<Member("allowFrom", AllowA)>>)
  /\ Get(input.parsed, "whatsapp").val = JObj(<<Other>>)
  /\ ~Get(output.writes[1], "routing").found
  /\ Get(output.writes[1], "whatsapp").val = JObj(<<Other, Member("allowFrom", AllowA)>>)
  /\ output.restarts = 1

\* ---------------------------------------------------------------- TUI
\* src/unnamed/part_002, runTui: the chat run the TUI holds as active

\* The most messages sent in a behaviour
MaxRuns == 2

SessionKeys == {"main", "work"}

\* activeChatRunId = null
NoRun == 0

\* A run the gateway was asked for by sendChat: sent is the sendChat still
\* awaited, live is the run not having had its terminal event
Run(runId, sessionKey, sent, live) ==
  [runId |-> runId, sessionKey |-> sessionKey, sent |-> sent, live |-> live]

\* The state of runTui that the chat handlers share: currentSessionKey,
\* activeChatRunId, the runs asked for, and the runs whose terminal event was
\* handled for the session current at that time
Tui(currentSessionKey, activeChatRunId, runs, handled) ==
  [currentSessionKey |-> currentSessionKey, activeChatRunId |-> activeChatRunId,
   runs |-> runs, handled |-> handled]

TuiInit ==
  /\ TransportInit
  /\ phase = "tui"
  /\ input = "main"
  /\ output = Tui(input, NoRun, <<>>, {})

\* sendMessage(text) up to the await of client.sendChat
SendMessage ==
  /\ Len(output.runs) < MaxRuns
  /\ output' = [output EXCEPT
                  !.runs = Append(@, Run(Len(@) + 1, output.currentSessionKey, TRUE, TRUE))]
  /\ UNCHANGED <<phase, input, caller, pc, signal, call, request, response, promise, stream,
                 uuid>>

\* client.sendChat resolved with {runId}: activeChatRunId = runId
SendChatReturn ==
  \E i \in 1..Len(output.runs) :
    /\ output.runs[i].sent
    /\ output' = [output EXCEPT !.runs[i].sent = FALSE,
                                !.activeChatRunId = output.runs[i].runId]
    /\ UNCHANGED <<phase, input, caller, pc, signal, call, request, response, promise, stream,
                   uuid>>

\* client.sendChat rejected: the catch block reports it
SendChatFail ==
  \E i \in 1..Len(output.runs) :
    /\ output.runs[i].sent
    /\ output' = [output EXCEPT !.runs[i].sent = FALSE]
    /\ UNCHANGED <<phase, input, caller, pc, signal, call, request, response, promise, stream,
                   uuid>>

\* handleChatEvent(evt) for an event of a run the gateway is running; only the
\* terminal states end the run
HandleChatEvent ==
  \E i \in 1..Len(output.runs), state \in {"delta", "final", "aborted", "error"} :
    /\ output.runs[i].live
    /\ output' =
         IF state = "delta" THEN output
         ELSE IF output.runs[i].sessionKey # output.currentSessionKey
         THEN [output EXCEPT !.runs[i].live = FALSE]
         ELSE [output EXCEPT !.runs[i].live = FALSE,
                             !.activeChatRunId = NoRun,
                             !.handled = @ \cup {output.runs[i].runId}]
    /\ UNCHANGED <<phase, input, caller, pc, signal, call, request, response, promise, stream,
                   uuid>>

\* setSession(key)
SetSession ==
  \E key \in SessionKeys :
    /\ output' = [output EXCEPT !.currentSessionKey = key, !.activeChatRunId = NoRun]
    /\ UNCHANGED <<phase, input, caller, pc, signal, call, request, response, promise, stream,
                   uuid>>

TuiNext == SendMessage \/ SendChatReturn \/ SendChatFail \/ HandleChatEvent \/ SetSession

SpecTui == TuiInit /\ [][TuiNext]_vars

\* C30: a run whose terminal event was handled for the current session is not
\* the active run, whatever the order of sendMessage, the return of sendChat,
\* handleChatEvent and setSession.
C30_NoStaleActiveRun == output.activeChatRunId \notin output.handled

====
